---- MODULE Spec2Model ----
(***************************************************************************)
(* Verification model of the query-schema crate of prisma-engines: the     *)
(* output ObjectType field cell, the input-type registry and the filter    *)
(* type constructors, the root Query/Mutation types with their lookup      *)
(* index, the DMMF rendering traversal and the selection validation.       *)
(***************************************************************************)
EXTENDS Naturals, Sequences, FiniteSets, TLC

VARIABLES
    \* ---- ObjectType field cell, sequential API (output_types.rs)
    obj,        \* the ObjectType under test
    res,        \* outcome of the last operation on obj
    firstSet,   \* ghost: the list given to the first successful set_fields
    added,      \* ghost: the fields pushed by add_field since, in order
    \* ---- ObjectType field cell shared by threads (output_types.rs)
    cell,       \* the OnceCell of the shared ObjectType
    tpc,        \* per thread: position inside its current operation
    targ,       \* per thread: the list a set_fields call is moving in
    obs,        \* per thread: outcome of its last read
    won,        \* ghost: the list of the assignment that completed
    \* ---- input-type registry and filter type constructors (build/)
    dm,         \* the data model the schema is built for
    capabilities,        \* ctx.connector: the capabilities of the connector
    preview_features,    \* ctx.preview_features
    enable_raw_queries,  \* ctx.enable_raw_queries
    cache,      \* ctx: Identifier -> arena id, as a set of entries
    db,         \* ctx.db: the arena of input object types, addressed by id
    stack,      \* call stack of the constructors in progress
    ret,        \* value returned by the last top-level request
    requests,   \* number of top-level requests made so far
    bodyRuns,   \* ghost: identifiers whose field body started once / again
    served,     \* ghost: (identifier, id) pairs returned by the constructors
    \* ---- QuerySchema and its lookup index (query_schema.rs)
    query_schema,   \* the built QuerySchema: query_map and mutation_map
    found,          \* the last lookup and its result
    \* ---- DMMF rendering traversal (dmmf/ schema_renderer.rs, type_renderer.rs)
    rpc,        \* position of the renderer: idle, pass, fields, done
    next_pass,  \* RenderContext: the types marked to be rendered, in order
    rendered,   \* RenderContext: the keys of the types rendered so far
    renderLog,  \* ghost: the keys in the order they were rendered
    \* ---- validation of a query document against the output schema
    document,   \* the selection set sent under the query operation
    vpc,        \* position of the validator: idle, validated
    errors,     \* the validation errors of the document, in document order
    parsed,     \* the parsed document, when there is no error
    subject,    \* a raw value and the input field or object it is parsed against
    known_error, \* the KnownError a validation error was converted into
    \* ---- order-by input types (build/input_types/objects/order_by_objects.rs)
    order_by    \* the order-by types built so far, with their fields read

cellVars == <<obj, res, firstSet, added>>
concVars == <<cell, tpc, targ, obs, won>>
cfgVars == <<dm, capabilities, preview_features, enable_raw_queries>>
buildVars == <<cfgVars, cache, db, stack, ret, requests, bodyRuns, served>>
indexVars == <<query_schema, found>>
renderVars == <<rpc, next_pass, rendered, renderLog>>
validateVars == <<document, vpc, errors, parsed, subject, known_error>>
orderVars == <<order_by>>
notCell == <<concVars, buildVars, indexVars, renderVars, validateVars, orderVars>>
notConc == <<cellVars, buildVars, indexVars, renderVars, validateVars, orderVars>>
notBuild == <<cellVars, concVars, indexVars, renderVars, validateVars, orderVars>>
notIndex == <<cellVars, concVars, cache, db, stack, ret, requests, bodyRuns, served, renderVars,
              validateVars, orderVars>>
notRender == <<cellVars, concVars, indexVars, cfgVars, cache, db, requests, bodyRuns, served,
               validateVars, orderVars>>
notValidate == <<cellVars, concVars, buildVars, indexVars, renderVars, orderVars>>
notOrder == <<cellVars, concVars, buildVars, indexVars, renderVars, validateVars>>
vars == <<obj, res, firstSet, added, cell, tpc, targ, obs, won,
          dm, capabilities, preview_features, enable_raw_queries,
          cache, db, stack, ret, requests, bodyRuns, served, query_schema, found,
          rpc, next_pass, rendered, renderLog, document, vpc, errors, parsed,
          subject, known_error, order_by>>

-----------------------------------------------------------------------------
(* Option<T> *)

None == [some |-> FALSE, v |-> <<>>]
Some(x) == [some |-> TRUE, v |-> <<x>>]
Unwrapped(o) == o.v[1]

(* Identifier: derived PartialEq/Eq/Hash over both members. *)
Identifier(ns, nm) == [namespace |-> ns, name |-> nm]
new_prisma(nm) == Identifier("prisma", nm)
new_model(nm) == Identifier("model", nm)
NoIdent == Identifier("", <<>>)

(* OutputType / InputType: a chain of List(..) around Scalar, Enum or Object. *)
(* depth counts the List wrappers.                                          *)
(* An object is referred to by value, carrying its identifier and its field *)
(* closure (fn applied to m and x), or by its arena id (id > 0).            *)
Closure(fn, m, x) == [fn |-> fn, m |-> m, x |-> x]
NoClosure == Closure("", "", "")
TScalar(s) ==
    [depth |-> 0, k |-> "Scalar", scalar |-> s, ident |-> NoIdent, id |-> 0, closure |-> NoClosure]
TEnum(id) ==
    [depth |-> 0, k |-> "Enum", scalar |-> "", ident |-> id, id |-> 0, closure |-> NoClosure]
TObject(o) ==
    [depth |-> 0, k |-> "Object", scalar |-> "", ident |-> o.identifier, id |-> 0,
     closure |-> o.closure]
TObjectId(n) ==
    [depth |-> 0, k |-> "Object", scalar |-> "", ident |-> NoIdent, id |-> n, closure |-> NoClosure]
TList(t) == [t EXCEPT !.depth = @ + 1]

(* QueryInfo { model: Option<ModelRef>, tag }; model "" stands for None. *)
QueryInfo(m, tag) == [model |-> m, tag |-> tag]
NoInfo == QueryInfo("", "")

(* utils.rs field(): is_nullable starts false. *)
field(name, arguments, field_type, query_info) ==
    [name |-> name, arguments |-> arguments, field_type |-> field_type,
     query_info |-> query_info, is_nullable |-> FALSE]

nullable(f) == [f EXCEPT !.is_nullable = TRUE]
nullable_if(f, c) == IF c THEN nullable(f) ELSE f

-----------------------------------------------------------------------------
(* ObjectType (output_types.rs): fields is a OnceCell<Vec<OutputField>>.   *)

MaxFields == 2

CellFieldUniverse ==
    { field("id", <<>>, TScalar("Int"), NoInfo),
      field("name", <<>>, TScalar("String"), NoInfo),
      field("id", <<>>, TScalar("String"), NoInfo) }

RECURSIVE SeqsUpTo(_, _)
SeqsUpTo(S, n) ==
    IF n = 0 THEN {<<>>}
    ELSE LET shorter == SeqsUpTo(S, n - 1)
         IN shorter \cup { Append(s, x) : s \in { t \in shorter : Len(t) = n - 1 }, x \in S }

FieldLists == SeqsUpTo(CellFieldUniverse, MaxFields)

ObjectType_new(ident, model) == [identifier |-> ident, fields |-> None, model |-> model]

(* An operation ends with a value or with a panic (the unwrap of a None or *)
(* of an Err): outcome "panic" is the fatal class, which carries no        *)
(* ValidationError.  unset records whether the cell was empty before.      *)
Ok(op, arg, val) == [op |-> op, arg |-> arg, outcome |-> "ok", val |-> val, unset |-> FALSE]
Panic(op, arg) == [op |-> op, arg |-> arg, outcome |-> "panic", val |-> <<>>, unset |-> FALSE]
NoRes == [op |-> "", arg |-> "", outcome |-> "", val |-> <<>>, unset |-> FALSE]

get_fields_default(self) ==
    IF self.fields.some THEN Ok("get_fields", "", Unwrapped(self.fields))
    ELSE Ok("get_fields", "", <<>>)

(* self.fields.get().unwrap() *)
get_fields(self) ==
    IF self.fields.some THEN Ok("get_fields", "", Unwrapped(self.fields))
    ELSE Panic("get_fields", "")

RECURSIVE FindByName(_, _)
FindByName(fs, name) ==
    IF fs = <<>> THEN None
    ELSE IF Head(fs).name = name THEN Some(Head(fs))
    ELSE FindByName(Tail(fs), name)

find_field_or_first(self, name) ==
    LET g == get_fields(self)
    IN IF g.outcome = "panic" THEN Panic("find_field", name)
       ELSE IF FindByName(g.val, name).some \/ g.val = <<>>
       THEN Ok("find_field", name, FindByName(g.val, name))
       ELSE Ok("find_field", name, Some(Head(g.val)))

(* self.get_fields().iter().find(|f| f.name == name) *)
find_field(self, name) ==
    LET g == get_fields(self)
    IN IF g.outcome = "panic" THEN Panic("find_field", name)
       ELSE Ok("find_field", name, FindByName(g.val, name))

set_fields_overwrite(self, fs) ==
    [self |-> [self EXCEPT !.fields = Some(fs)], ok |-> TRUE]

(* OnceCell::set gives Err when the cell is full, and unwrap() then panics. *)
set_fields(self, fs) ==
    IF self.fields.some THEN [self |-> self, ok |-> FALSE]
    ELSE [self |-> [self EXCEPT !.fields = Some(fs)], ok |-> TRUE]

(* self.fields.get_mut().unwrap().push(field) *)
add_field(self, f) ==
    IF self.fields.some
    THEN [self |-> [self EXCEPT !.fields = Some(Append(Unwrapped(self.fields), f))], ok |-> TRUE]
    ELSE [self |-> self, ok |-> FALSE]

CellIdle ==
    /\ obj = ObjectType_new(new_prisma(<<"Query">>), "")
    /\ res = NoRes
    /\ firstSet = None
    /\ added = <<>>

SetFields(fs) ==
    LET r == set_fields(obj, fs)
    IN /\ obj' = r.self
       /\ res' = [(IF r.ok THEN Ok("set_fields", "", <<>>) ELSE Panic("set_fields", ""))
                     EXCEPT !.unset = ~obj.fields.some]
       /\ firstSet' = IF firstSet.some THEN firstSet ELSE Some(fs)
       /\ UNCHANGED <<added, notCell>>

GetFields ==
    /\ res' = [get_fields(obj) EXCEPT !.unset = ~obj.fields.some]
    /\ UNCHANGED <<obj, firstSet, added, notCell>>

FindField(name) ==
    /\ res' = [find_field(obj, name) EXCEPT !.unset = ~obj.fields.some]
    /\ UNCHANGED <<obj, firstSet, added, notCell>>

(* add_field takes &mut self: it runs with exclusive access to the type. *)
AddField(f) ==
    LET r == add_field(obj, f)
    IN /\ Len(added) < MaxFields
       /\ obj' = r.self
       /\ res' = [(IF r.ok THEN Ok("add_field", f.name, <<>>) ELSE Panic("add_field", f.name))
                     EXCEPT !.unset = ~obj.fields.some]
       /\ added' = IF r.ok THEN Append(added, f) ELSE added
       /\ UNCHANGED <<firstSet, notCell>>

FieldNames == {"id", "name", "zip"}

-----------------------------------------------------------------------------
(* The same cell read and assigned through shared references (&self) by    *)
(* several threads.  once_cell::sync::OnceCell: an initialiser moves the   *)
(* cell from incomplete to running, writes the slot, then publishes it as  *)
(* complete; get() returns the slot only when the cell is complete; a set  *)
(* that meets a running initialiser waits for it and then gets Err.        *)

NThreads == 3
Threads == 1..NThreads

(* the lists the racing set_fields calls carry *)
ConcLists ==
    { << field("id", <<>>, TScalar("Int"), NoInfo), field("name", <<>>, TScalar("String"), NoInfo) >>,
      << field("name", <<>>, TScalar("String"), NoInfo), field("id", <<>>, TScalar("String"), NoInfo) >> }

cell_get_racy(c) == IF c.state = "incomplete" THEN None ELSE Some(c.slot)

(* OnceCell::get as used by get_fields *)
cell_get(c) == IF c.state = "complete" THEN Some(c.slot) ELSE None

SharedObject == [identifier |-> new_prisma(<<"Query">>), fields |-> cell_get(cell), model |-> ""]

ConcIdle ==
    /\ cell = [state |-> "incomplete", slot |-> <<>>]
    /\ tpc = [t \in Threads |-> "idle"]
    /\ targ = [t \in Threads |-> <<>>]
    /\ obs = [t \in Threads |-> NoRes]
    /\ won = None

(* set_fields, first step: try to become the initialiser. *)
SetBegin(t, fs) ==
    /\ tpc[t] = "idle"
    /\ \/ /\ cell.state = "incomplete"
          /\ cell' = [cell EXCEPT !.state = "running"]
          /\ tpc' = [tpc EXCEPT ![t] = "writing"]
          /\ targ' = [targ EXCEPT ![t] = fs]
          /\ UNCHANGED obs
       \/ /\ cell.state = "running"
          /\ tpc' = [tpc EXCEPT ![t] = "waiting"]
          /\ UNCHANGED <<cell, targ, obs>>
       \/ /\ cell.state = "complete"
          /\ obs' = [obs EXCEPT ![t] = Panic("set_fields", "")]
          /\ UNCHANGED <<cell, tpc, targ>>
    /\ UNCHANGED <<won, notConc>>

(* the initialiser moves the list into the slot *)
SetWrite(t) ==
    /\ tpc[t] = "writing"
    /\ Len(cell.slot) < Len(targ[t])
    /\ cell' = [cell EXCEPT !.slot = Append(@, targ[t][Len(@) + 1])]
    /\ UNCHANGED <<tpc, targ, obs, won, notConc>>

(* ... and publishes the cell as complete *)
SetPublish(t) ==
    /\ tpc[t] = "writing"
    /\ Len(cell.slot) = Len(targ[t])
    /\ cell' = [cell EXCEPT !.state = "complete"]
    /\ won' = Some(targ[t])
    /\ tpc' = [tpc EXCEPT ![t] = "idle"]
    /\ targ' = [targ EXCEPT ![t] = <<>>]
    /\ obs' = [obs EXCEPT ![t] = Ok("set_fields", "", <<>>)]
    /\ UNCHANGED notConc

(* a set that waited for the initialiser gets Err(value): unwrap panics *)
SetLost(t) ==
    /\ tpc[t] = "waiting"
    /\ cell.state = "complete"
    /\ tpc' = [tpc EXCEPT ![t] = "idle"]
    /\ obs' = [obs EXCEPT ![t] = Panic("set_fields", "")]
    /\ UNCHANGED <<cell, targ, won, notConc>>

ThreadGetFields(t) ==
    /\ tpc[t] = "idle"
    /\ obs' = [obs EXCEPT ![t] = get_fields(SharedObject)]
    /\ UNCHANGED <<cell, tpc, targ, won, notConc>>

ThreadFindField(t, name) ==
    /\ tpc[t] = "idle"
    /\ obs' = [obs EXCEPT ![t] = find_field(SharedObject, name)]
    /\ UNCHANGED <<cell, tpc, targ, won, notConc>>

-----------------------------------------------------------------------------
(* Data models.  A model field is scalar or relation; Json, composite and   *)
(* unsupported fields do not occur in the data models checked here.         *)

Sf(name, typ, list, req) ==
    [name |-> name, kind |-> "Scalar", typ |-> typ, is_list |-> list,
     is_required |-> req, related |-> ""]
Rf(name, related, list, req) ==
    [name |-> name, kind |-> "Relation", typ |-> "", is_list |-> list,
     is_required |-> req, related |-> related]
NoField == Sf("", "", FALSE, FALSE)

(* cycle2: A -> B -> A;  self: A -> A;  cycle3: A -> B -> C -> A;           *)
(* nokey: A -> L, where L has no unique field and cannot be created;       *)
(* user: one model User with the unique fields id and email;              *)
(* compound: Team with a unique index over first and last, Member with the  *)
(* primary key (teamId, userId) (the schemas of the registry and of the     *)
(* renderer are built for the first four);                                  *)
(* numbers, texts, others: one model each (N, T, O) whose scalar fields     *)
(* cover the numeric kinds, the string and date kinds, and bytes, the enum  *)
(* Role, Boolean and a scalar list                                          *)
DataModels == {"cycle2", "self", "cycle3", "nokey"}

Models(d) ==
    IF d = "cycle2" THEN <<"A", "B">>
    ELSE IF d = "self" THEN <<"A">>
    ELSE IF d = "nokey" THEN <<"A", "L">>
    ELSE IF d = "user" THEN <<"User">>
    ELSE IF d = "compound" THEN <<"Team", "Member">>
    ELSE IF d = "numbers" THEN <<"N">>
    ELSE IF d = "texts" THEN <<"T">>
    ELSE IF d = "others" THEN <<"O">>
    ELSE <<"A", "B", "C">>

ModelFields(d, m) ==
    CASE d = "cycle2" /\ m = "A" ->
           << Sf("id", "Int", FALSE, TRUE), Rf("b", "B", FALSE, TRUE) >>
      [] d = "cycle2" /\ m = "B" ->
           << Sf("id", "Int", FALSE, TRUE), Sf("name", "String", FALSE, FALSE),
              Rf("as", "A", TRUE, TRUE) >>
      [] d = "self" ->
           << Sf("id", "Int", FALSE, TRUE), Sf("tags", "String", TRUE, TRUE),
              Rf("parent", "A", FALSE, FALSE), Rf("children", "A", TRUE, TRUE) >>
      [] d = "user" ->
           << Sf("id", "Int", FALSE, TRUE), Sf("email", "String", FALSE, TRUE),
              Sf("name", "String", FALSE, FALSE) >>
      [] d = "compound" /\ m = "Team" ->
           << Sf("id", "Int", FALSE, TRUE), Sf("first", "String", FALSE, TRUE),
              Sf("last", "String", FALSE, TRUE) >>
      [] d = "compound" ->
           << Sf("teamId", "Int", FALSE, TRUE), Sf("userId", "Int", FALSE, TRUE),
              Sf("nickname", "String", FALSE, FALSE) >>
      [] d = "numbers" ->
           << Sf("id", "Int", FALSE, TRUE), Sf("big", "BigInt", FALSE, TRUE),
              Sf("ratio", "Float", FALSE, FALSE), Sf("amount", "Decimal", FALSE, TRUE) >>
      [] d = "texts" ->
           << Sf("id", "String", FALSE, TRUE), Sf("uid", "UUID", FALSE, TRUE),
              Sf("at", "DateTime", FALSE, FALSE) >>
      [] d = "others" ->
           << Sf("id", "Int", FALSE, TRUE), Sf("blob", "Bytes", FALSE, TRUE),
              Sf("role", "Role", FALSE, TRUE), Sf("flag", "Boolean", FALSE, FALSE),
              Sf("tags", "String", TRUE, TRUE) >>
      [] d = "nokey" /\ m = "A" ->
           << Sf("id", "Int", FALSE, TRUE), Rf("ls", "L", TRUE, TRUE) >>
      [] d = "nokey" ->
           << Sf("msg", "String", FALSE, TRUE) >>
      [] d = "cycle3" /\ m = "A" ->
           << Sf("id", "Int", FALSE, TRUE), Rf("b", "B", FALSE, TRUE) >>
      [] d = "cycle3" /\ m = "B" ->
           << Sf("id", "Int", FALSE, TRUE), Rf("c", "C", FALSE, FALSE) >>
      [] OTHER ->
           << Sf("id", "Int", FALSE, TRUE), Sf("score", "Float", FALSE, FALSE),
              Rf("a", "A", TRUE, TRUE) >>

RECURSIVE SeqToSet(_)
SeqToSet(q) == IF q = <<>> THEN {} ELSE {Head(q)} \cup SeqToSet(Tail(q))

B(b) == IF b THEN "true" ELSE "false"

(* iter().join(sep) *)
RECURSIVE join_with(_, _)
join_with(xs, sep) ==
    IF xs = <<>> THEN ""
    ELSE IF Len(xs) = 1 THEN xs[1]
    ELSE xs[1] \o sep \o join_with(Tail(xs), sep)

(* the unique indexes of a model over more than one field and its primary *)
(* key; an index or key is a name, if it was given one, and its fields     *)
Index(name, fields) == [name |-> name, fields |-> fields]
unique_indexes(d, m) ==
    IF d = "compound" /\ m = "Team" THEN << Index(None, <<"first", "last">>) >> ELSE <<>>
primary_key(d, m) ==
    IF d = "compound" /\ m = "Member" THEN Some(Index(None, <<"teamId", "userId">>))
    ELSE IF SelectSeq(ModelFields(d, m), LAMBDA f : f.name = "id") # <<>>
    THEN Some(Index(None, <<"id">>))
    ELSE None

(* compound_index_field_name and compound_id_field_name: the name given,   *)
(* or the names of the fields joined by an underscore                      *)
compound_index_field_name(index) ==
    IF index.name.some THEN Unwrapped(index.name) ELSE join_with(index.fields, "_")

-----------------------------------------------------------------------------
(* Input object types and input fields (input_types.rs, build/utils.rs).    *)

InputObjectTypeConstraints_default ==
    [min_num_fields |-> None, max_num_fields |-> None, fields |-> None]

(* fields: Arc::new(|| Vec::new()), no tag, default constraints *)
init_input_object_type(ident) ==
    [identifier |-> ident, constraints |-> InputObjectTypeConstraints_default,
     fields |-> <<>>, closure |-> NoClosure, tag |-> ""]

(* object.fields = Arc::new(closure) *)
with_closure(o, fn, m, x) == [o EXCEPT !.closure = Closure(fn, m, x)]

set_tag(o, tag) == [o EXCEPT !.tag = tag]
set_max_fields(o, max) == [o EXCEPT !.constraints.max_num_fields = Some(max)]
set_min_fields(o, min) == [o EXCEPT !.constraints.min_num_fields = Some(min)]
require_at_most_one_field(o) == set_min_fields(set_max_fields(o, 1), 0)
require_exactly_one_field(o) == set_min_fields(set_max_fields(o, 1), 1)
(* a lower bound of two fields *)
require_at_least_two_fields(o) == set_min_fields(o, 2)
require_at_least_one_field(o) == set_min_fields(o, 1)
apply_constraints_on_first_field(o, fields) ==
    [o EXCEPT !.constraints.fields = Some(SubSeq(fields, 1, 1))]
apply_constraints_on_fields(o, fields) == [o EXCEPT !.constraints.fields = Some(fields)]
InputObjectType_set_fields(o, fields) == [o EXCEPT !.fields = fields]

(* InputField::new(name, field_types, default_value, true) *)
input_field(name, field_types) ==
    [name |-> name, field_types |-> field_types, is_required |-> TRUE]
optional(f) == [f EXCEPT !.is_required = FALSE]
add_type(f, typ) == [f EXCEPT !.field_types = Append(@, typ)]
InputField_nullable(f) == add_type(f, TScalar("Null"))
InputField_nullable_if(f, c) == IF c THEN InputField_nullable(f) ELSE f

(* configuration of the build: consulted, never changed *)
has_feature(x) == x \in preview_features
has_capability(x) == x \in capabilities

-----------------------------------------------------------------------------
(* Identifiers of the filter types (the IdentifierType variants named at    *)
(* the call sites; their rendering to a string is one-to-one).              *)

where_ident(container) == new_prisma(<<"WhereInput", container>>)
to_many_ident(related) == new_prisma(<<"ToManyRelationFilterInput", related>>)
to_one_ident(related, required) ==
    new_prisma(<<"ToOneRelationFilterInput", related,
                 IF required THEN "Required" ELSE "Optional">>)
scalar_list_ident(typ, required) ==
    new_prisma(<<"ScalarListFilterInput", typ, B(required)>>)
scalar_filter_name(type_name, list, is_nullable, nested, include_aggregates) ==
    <<"ScalarFilter", type_name, B(list), B(is_nullable), B(nested), B(include_aggregates)>>

(* where_object_type: the object is returned by value, its field closure is *)
(* not evaluated by the call.                                               *)
where_object_type(container) ==
    with_closure(set_tag(init_input_object_type(where_ident(container)), "WhereInputType"),
                 "where_object_type_fields", container, "")

InputType_object(o) == TObject(o)

(* the enums of the data models *)
EnumNames == {"Role"}

map_scalar_nonlist_type(typ) ==
    IF typ \in EnumNames THEN TEnum(new_model(<<typ>>)) ELSE TScalar(typ)

map_scalar_input_type(typ, list) ==
    IF list THEN TList(map_scalar_nonlist_type(typ)) ELSE map_scalar_nonlist_type(typ)

field_ref_input_type_name(t) ==
    new_prisma(<<(IF t.depth > 0 THEN "List" ELSE "")
                 \o (IF t.k = "Enum" THEN "Enum" \o t.ident.name[1] ELSE t.scalar)
                 \o "FieldRefInput">>)

with_field_ref_input(t) ==
    IF has_feature("FieldReference")
    THEN <<t, TObject(with_closure(init_input_object_type(field_ref_input_type_name(t)),
                                   "field_ref_input_object_type", "", ""))>>
    ELSE <<t>>

is_numeric(typ) == typ \in {"Int", "BigInt", "Float", "Decimal"}

map_avg_type_ident(typ) == IF typ \in {"Int", "BigInt", "Float"} THEN "Float" ELSE typ

equality_filters(mapped_type, is_nullable) ==
    << InputField_nullable_if(optional(input_field("equals", with_field_ref_input(mapped_type))), is_nullable) >>

inclusion_filters(mapped_type, is_nullable) ==
    LET input_type == TList(mapped_type)
        field_types == (IF has_capability("ScalarLists") THEN with_field_ref_input(input_type)
                        ELSE <<input_type>>) \o <<mapped_type>>
    IN << InputField_nullable_if(optional(input_field("in", field_types)), is_nullable),
          InputField_nullable_if(optional(input_field("notIn", field_types)), is_nullable) >>

(* ordering comparisons that lack lte and gte *)
alphanumeric_filters_strict_only(mapped_type) ==
    << optional(input_field("lt", with_field_ref_input(mapped_type))),
       optional(input_field("gt", with_field_ref_input(mapped_type))) >>

alphanumeric_filters(mapped_type) ==
    LET field_types ==
            IF mapped_type.scalar # "Json" \/ has_capability("JsonFilteringAlphanumericFieldRef")
            THEN with_field_ref_input(mapped_type) ELSE <<mapped_type>>
    IN << optional(input_field("lt", field_types)), optional(input_field("lte", field_types)),
          optional(input_field("gt", field_types)), optional(input_field("gte", field_types)) >>

(* connector.string_filters(name): contains, startsWith, endsWith *)
string_filters(mapped_type) ==
    LET field_types == with_field_ref_input(mapped_type)
    IN << optional(input_field("contains", field_types)),
          optional(input_field("startsWith", field_types)),
          optional(input_field("endsWith", field_types)) >>

query_mode_field(nested) ==
    IF ~nested /\ has_capability("InsensitiveFilters")
    THEN << optional(input_field("mode", <<TEnum(new_prisma(<<"QueryMode">>))>>)) >>
    ELSE <<>>

is_set_input_field == optional(input_field("isSet", <<TScalar("Boolean")>>))

-----------------------------------------------------------------------------
(* The constructors as straight-line programs over the registry.  A call    *)
(* names a constructor and its arguments; an instruction is one of          *)
(*   return_cached_input  return the cached id when the identifier is known *)
(*   cache_input_type     push the field-less object, map identifier -> id  *)
(*   where_object_type    build a lazy filter object (no registry access)   *)
(*   call                 request a nested type                             *)
(*   set_fields           ctx.db[id].set_fields(fields)                     *)
(*   return               hand the result to the caller                     *)

Args(typ, list, is_nullable, nested, include_aggregates, f, model) ==
    [typ |-> typ, list |-> list, is_nullable |-> is_nullable, nested |-> nested,
     include_aggregates |-> include_aggregates, f |-> f, model |-> model]
FieldArgs(f, include_aggregates) ==
    Args("", FALSE, FALSE, FALSE, include_aggregates, f, "")
ScalarArgs(typ, list, is_nullable, nested, include_aggregates) ==
    Args(typ, list, is_nullable, nested, include_aggregates, NoField, "")

Call(fn, a) == [fn |-> fn, a |-> a]
NoCall == Call("", FieldArgs(NoField, FALSE))
Instr(op) == [op |-> op, call |-> NoCall]
CallInstr(c) == [op |-> "call", call |-> c]

(* not_filter_field: Json takes no nested filter, every other type asks for *)
(* the nested full filter of the same type.                                 *)
not_filter_field_calls(a) ==
    IF a.typ = "Json" THEN <<>>
    ELSE << CallInstr(Call("full_scalar_filter_type",
                ScalarArgs(a.typ, a.list, a.is_nullable, TRUE, a.include_aggregates))) >>

aggregate_filter_field_call(typ, is_nullable, list) ==
    CallInstr(Call("full_scalar_filter_type", ScalarArgs(typ, list, is_nullable, TRUE, FALSE)))

(* the aggregate filters of full_scalar_filter_type, in the order pushed *)
(* the aggregate filters with the two conditions exchanged *)
aggregate_names_exchanged(typ, list) ==
    <<"_count">> \o (IF is_numeric(typ) THEN <<"_min", "_max">> ELSE <<>>)
                 \o (IF ~list THEN <<"_avg", "_sum">> ELSE <<>>)
aggregate_names(typ, list) ==
    <<"_count">> \o (IF is_numeric(typ) THEN <<"_avg", "_sum">> ELSE <<>>)
                 \o (IF ~list THEN <<"_min", "_max">> ELSE <<>>)
aggregate_types(typ, list) ==
    <<"Int">> \o (IF is_numeric(typ) THEN <<map_avg_type_ident(typ), typ>> ELSE <<>>)
              \o (IF ~list THEN <<typ, typ>> ELSE <<>>)

to_many_relation_filter_object_uncached(a) ==
    << Instr("cache_input_type"), Instr("where_object_type"),
       Instr("set_fields"), Instr("return") >>

to_many_relation_filter_object(a) ==
    << Instr("return_cached_input"), Instr("cache_input_type"),
       Instr("where_object_type"), Instr("set_fields"), Instr("return") >>

to_one_relation_filter_object_eager(a) ==
    << CallInstr(Call("where_object_type_fields",
                      Args("", FALSE, FALSE, FALSE, FALSE, NoField, a.f.related))),
       Instr("return_cached_input"), Instr("cache_input_type"),
       Instr("set_fields"), Instr("return") >>

to_one_relation_filter_object(a) ==
    << Instr("where_object_type"), Instr("return_cached_input"),
       Instr("cache_input_type"), Instr("set_fields"), Instr("return") >>

scalar_list_filter_type(a) ==
    << Instr("return_cached_input"), Instr("cache_input_type"),
       Instr("set_fields"), Instr("return") >>

full_scalar_filter_type_late(a) ==
    << Instr("return_cached_input") >>
    \o not_filter_field_calls(a)
    \o (IF a.include_aggregates
        THEN [i \in 1..Len(aggregate_types(a.typ, a.list)) |->
                aggregate_filter_field_call(aggregate_types(a.typ, a.list)[i], a.is_nullable, a.list)]
        ELSE <<>>)
    \o << Instr("cache_input_type"), Instr("set_fields"), Instr("return") >>

full_scalar_filter_type(a) ==
    << Instr("return_cached_input"), Instr("cache_input_type") >>
    \o not_filter_field_calls(a)
    \o (IF a.include_aggregates
        THEN [i \in 1..Len(aggregate_types(a.typ, a.list)) |->
                aggregate_filter_field_call(aggregate_types(a.typ, a.list)[i], a.is_nullable, a.list)]
        ELSE <<>>)
    \o << Instr("set_fields"), Instr("return") >>

(* the match of get_field_filter_types; the to-one shorthand is a lazy      *)
(* where_object_type                                                        *)
get_field_filter_types(a) ==
    IF a.f.kind = "Relation" /\ a.f.is_list
    THEN << CallInstr(Call("to_many_relation_filter_object", a)), Instr("return") >>
    ELSE IF a.f.kind = "Relation"
    THEN << CallInstr(Call("to_one_relation_filter_object", a)),
            Instr("where_object_type"), Instr("return") >>
    ELSE IF a.f.is_list
    THEN << CallInstr(Call("scalar_list_filter_type", a)), Instr("return") >>
    ELSE << CallInstr(Call("full_scalar_filter_type",
                ScalarArgs(a.f.typ, a.f.is_list, ~a.f.is_required, FALSE, a.include_aggregates))),
            Instr("return") >>

(* the field closure of where_object_type(container): the three boolean     *)
(* operators, then one filter field per field of the container              *)
where_object_type_fields(a) ==
    << Instr("where_object_type") >>
    \o [i \in 1..Len(ModelFields(dm, a.model)) |->
          CallInstr(Call("get_field_filter_types", FieldArgs(ModelFields(dm, a.model)[i], FALSE)))]
    \o << Instr("return") >>

IsScalar(f) == f.kind = "Scalar"
is_unique(f) == f.kind = "Scalar" /\ f.name \in {"id", "email"}
is_not_unique(f) == ~is_unique(f)
has_unique(d, m) == SelectSeq(ModelFields(d, m), is_unique) # <<>>
ScalarFields(d, m) == SelectSeq(ModelFields(d, m), IsScalar)

(* the field closure of scalar_filter_object_type(model, include_aggregates): *)
(* the boolean operators, then one filter field per scalar field            *)
scalar_filter_object_type_fields(a) ==
    << Instr("where_object_type") >>
    \o [i \in 1..Len(ScalarFields(dm, a.model)) |->
          CallInstr(Call("get_field_filter_types",
                         FieldArgs(ScalarFields(dm, a.model)[i], a.include_aggregates)))]
    \o << Instr("return") >>

(* the field closure of where_unique_object_type(model): with the          *)
(* ExtendedWhereUnique feature the boolean operators and one filter field   *)
(* per field that is not unique                                             *)
where_unique_object_type_fields(a) ==
    << Instr("where_object_type") >>
    \o (IF has_feature("ExtendedWhereUnique")
        THEN LET rest_fields == SelectSeq(ModelFields(dm, a.model), is_not_unique)
             IN [i \in 1..Len(rest_fields) |->
                   CallInstr(Call("get_field_filter_types", FieldArgs(rest_fields[i], FALSE)))]
        ELSE <<>>)
    \o << Instr("return") >>

Program(fn, a) ==
    CASE fn = "to_many_relation_filter_object" -> to_many_relation_filter_object(a)
      [] fn = "to_one_relation_filter_object" -> to_one_relation_filter_object(a)
      [] fn = "scalar_list_filter_type" -> scalar_list_filter_type(a)
      [] fn = "full_scalar_filter_type" -> full_scalar_filter_type(a)
      [] fn = "get_field_filter_types" -> get_field_filter_types(a)
      [] fn = "scalar_filter_object_type_fields" -> scalar_filter_object_type_fields(a)
      [] fn = "where_unique_object_type_fields" -> where_unique_object_type_fields(a)
      [] OTHER -> where_object_type_fields(a)

(* the identifier a constructor builds under *)
IdentOf(fn, a) ==
    CASE fn = "to_many_relation_filter_object" -> to_many_ident(a.f.related)
      [] fn = "to_one_relation_filter_object" -> to_one_ident(a.f.related, a.f.is_required)
      [] fn = "scalar_list_filter_type" -> scalar_list_ident(a.f.typ, a.f.is_required)
      [] fn = "full_scalar_filter_type" ->
           new_prisma(scalar_filter_name(a.typ, a.list, a.is_nullable, a.nested, a.include_aggregates))
      [] OTHER -> NoIdent

-----------------------------------------------------------------------------
(* The field lists the constructors compute; rets holds what the nested     *)
(* calls returned, in call order (each a list of input types).              *)

to_many_relation_filter_fields(a) ==
    LET related_input_type == InputType_object(where_object_type(a.f.related))
    IN << optional(input_field("every", <<related_input_type>>)),
          optional(input_field("some", <<related_input_type>>)),
          optional(input_field("none", <<related_input_type>>)) >>

to_one_relation_filter_fields(a) ==
    LET related_input_type == InputType_object(where_object_type(a.f.related))
    IN << InputField_nullable_if(optional(input_field("is", <<related_input_type>>)), ~a.f.is_required),
          InputField_nullable_if(optional(input_field("isNot", <<related_input_type>>)), ~a.f.is_required) >>

scalar_list_filter_fields(a) ==
    LET mapped_nonlist_type == map_scalar_input_type(a.f.typ, FALSE)
        mapped_list_type == TList(mapped_nonlist_type)
    IN equality_filters(mapped_list_type, ~a.f.is_required)
       \o << InputField_nullable_if(
                 optional(input_field("has", with_field_ref_input(mapped_nonlist_type))),
                 ~a.f.is_required),
             optional(input_field("hasEvery", with_field_ref_input(mapped_list_type))),
             optional(input_field("hasSome", with_field_ref_input(mapped_list_type))),
             optional(input_field("isEmpty", <<TScalar("Boolean")>>)) >>

not_filter_field(a, mapped_scalar_type, rets) ==
    IF a.typ = "Json"
    THEN InputField_nullable_if(
             optional(input_field("not", with_field_ref_input(mapped_scalar_type))), a.is_nullable)
    ELSE InputField_nullable_if(
             optional(input_field("not", <<mapped_scalar_type, rets[1][1]>>)), a.is_nullable)

full_scalar_filter_fields(a, rets) ==
    LET mapped_scalar_type == map_scalar_input_type(a.typ, a.list)
        matrix ==
            IF a.typ \in {"String", "UUID"}
            THEN equality_filters(mapped_scalar_type, a.is_nullable)
                 \o inclusion_filters(mapped_scalar_type, a.is_nullable)
                 \o alphanumeric_filters(mapped_scalar_type)
                 \o string_filters(mapped_scalar_type)
                 \o query_mode_field(a.nested)
            ELSE IF a.typ \in {"Int", "BigInt", "Float", "DateTime", "Decimal"}
            THEN equality_filters(mapped_scalar_type, a.is_nullable)
                 \o inclusion_filters(mapped_scalar_type, a.is_nullable)
                 \o alphanumeric_filters(mapped_scalar_type)
            ELSE IF a.typ \in {"Json", "Boolean", "Xml"}
            THEN equality_filters(mapped_scalar_type, a.is_nullable)
            ELSE equality_filters(mapped_scalar_type, a.is_nullable)
                 \o inclusion_filters(mapped_scalar_type, a.is_nullable)
        skip == Len(not_filter_field_calls(a))
        names == aggregate_names(a.typ, a.list)
    IN matrix
       \o << not_filter_field(a, mapped_scalar_type, rets) >>
       \o (IF a.include_aggregates
           THEN [i \in 1..Len(names) |-> optional(input_field(names[i], <<rets[skip + i][1]>>))]
           ELSE <<>>)
       \o (IF has_capability("UndefinedType") /\ (a.list \/ a.is_nullable)
           THEN <<is_set_input_field>> ELSE <<>>)

(* filter_input_field: the filter field of a model field, named after it *)
filter_input_field(f, types) == optional(input_field(f.name, types))

(* a where object whose OR takes a single object beside the list *)
where_object_fields_or_single(a, rets) ==
    LET object_type == InputType_object(where_object_type(a.model))
    IN << optional(input_field("AND", <<object_type, TList(object_type)>>)),
          optional(input_field("OR", <<object_type, TList(object_type)>>)),
          optional(input_field("NOT", <<object_type, TList(object_type)>>)) >>
       \o [i \in 1..Len(ModelFields(dm, a.model)) |->
             filter_input_field(ModelFields(dm, a.model)[i], rets[i])]

where_object_fields(a, rets) ==
    LET object_type == InputType_object(where_object_type(a.model))
    IN << optional(input_field("AND", <<object_type, TList(object_type)>>)),
          optional(input_field("OR", <<TList(object_type)>>)),
          optional(input_field("NOT", <<object_type, TList(object_type)>>)) >>
       \o [i \in 1..Len(ModelFields(dm, a.model)) |->
             filter_input_field(ModelFields(dm, a.model)[i], rets[i])]

scalar_filter_ident(model, include_aggregates) ==
    new_prisma(<<"ScalarFilterInput", model, B(include_aggregates)>>)

scalar_filter_object_type(model, include_aggregates) ==
    with_closure(set_tag(init_input_object_type(scalar_filter_ident(model, include_aggregates)),
                         "WhereInputType"),
                 "scalar_filter_object_type_fields", model, B(include_aggregates))

scalar_filter_object_fields(a, rets) ==
    LET object_type == InputType_object(scalar_filter_object_type(a.model, a.include_aggregates))
    IN << optional(input_field("AND", <<object_type, TList(object_type)>>)),
          optional(input_field("OR", <<TList(object_type)>>)),
          optional(input_field("NOT", <<object_type, TList(object_type)>>)) >>
       \o [i \in 1..Len(ScalarFields(dm, a.model)) |->
             filter_input_field(ScalarFields(dm, a.model)[i], rets[i])]

(* compound_field_unique_object_type and the (name, type) pairs of the     *)
(* compound unique indexes and of the compound primary key of a model      *)
compound_field_unique_object_type(model, index) ==
    with_closure(init_input_object_type(
                     new_prisma(<<model, compound_index_field_name(index), "CompoundUniqueInput">>)),
                 "compound_field_unique_object_type", model, compound_index_field_name(index))
Named(model, index) ==
    [name |-> compound_index_field_name(index),
     typ |-> compound_field_unique_object_type(model, index)]
compound_uniques(model) ==
    [i \in 1..Len(unique_indexes(dm, model)) |-> Named(model, unique_indexes(dm, model)[i])]
compound_id(model) ==
    LET of_key(key) ==
            IF key.some /\ Len(Unwrapped(key).fields) > 1
            THEN << Named(model, Unwrapped(key)) >>
            ELSE <<>>
    IN of_key(primary_key(dm, model))

(* the fields of the model that the compound index or key of that name   *)
(* is made of                                                              *)
compound_from_fields(model, name) ==
    LET named == SelectSeq(compound_uniques(model) \o compound_id(model),
                           LAMBDA c : c.name = name)
        indexes == unique_indexes(dm, model)
                   \o (IF primary_key(dm, model).some
                       THEN << Unwrapped(primary_key(dm, model)) >> ELSE <<>>)
        index == CHOOSE x \in SeqToSet(indexes) : compound_index_field_name(x) = name
    IN IF named = <<>> THEN <<>>
       ELSE SelectSeq(ModelFields(dm, model),
                      LAMBDA f : \E i \in 1..Len(index.fields) : index.fields[i] = f.name)

where_unique_object_fields(a, rets) ==
    LET unique_fields == SelectSeq(ModelFields(dm, a.model), is_unique)
        rest_fields == SelectSeq(ModelFields(dm, a.model), is_not_unique)
        where_input_type == InputType_object(where_object_type(a.model))
    IN [i \in 1..Len(unique_fields) |->
          optional(input_field(unique_fields[i].name,
              <<map_scalar_input_type(unique_fields[i].typ, unique_fields[i].is_list)>>))]
       \o [i \in 1..Len(compound_uniques(a.model)) |->
             optional(input_field(compound_uniques(a.model)[i].name,
                                  <<InputType_object(compound_uniques(a.model)[i].typ)>>))]
       \o [i \in 1..Len(compound_id(a.model)) |->
             optional(input_field(compound_id(a.model)[i].name,
                                  <<InputType_object(compound_id(a.model)[i].typ)>>))]
       \o (IF has_feature("ExtendedWhereUnique")
           THEN << optional(input_field("AND", <<where_input_type, TList(where_input_type)>>)),
                   optional(input_field("OR", <<TList(where_input_type)>>)),
                   optional(input_field("NOT", <<where_input_type, TList(where_input_type)>>)) >>
                \o [i \in 1..Len(rest_fields) |-> filter_input_field(rest_fields[i], rets[i])]
           ELSE <<>>)

FieldsOf(fn, a, rets) ==
    CASE fn = "to_many_relation_filter_object" -> to_many_relation_filter_fields(a)
      [] fn = "to_one_relation_filter_object" -> to_one_relation_filter_fields(a)
      [] fn = "scalar_list_filter_type" -> scalar_list_filter_fields(a)
      [] OTHER -> full_scalar_filter_fields(a, rets)

(* what a finished call hands to its caller *)
ResultOf(fr) ==
    CASE fr.fn = "get_field_filter_types" ->
           IF fr.a.f.kind = "Relation" /\ ~fr.a.f.is_list
           THEN fr.rets[1] \o <<InputType_object(where_object_type(fr.a.f.related))>>
           ELSE IF fr.a.f.kind = "Scalar" /\ ~fr.a.f.is_list /\ fr.a.f.typ # "Json"
           THEN fr.rets[1] \o <<map_scalar_input_type(fr.a.f.typ, FALSE)>>
           ELSE fr.rets[1]
      [] fr.fn = "where_object_type_fields" -> where_object_fields(fr.a, fr.rets)
      [] fr.fn = "scalar_filter_object_type_fields" -> scalar_filter_object_fields(fr.a, fr.rets)
      [] fr.fn = "where_unique_object_type_fields" -> where_unique_object_fields(fr.a, fr.rets)
      [] OTHER -> <<TObjectId(fr.id)>>

-----------------------------------------------------------------------------
(* The registry: ctx's identifier -> id map and the arena ctx.db.           *)

MaxRequests == 3
MaxStack == 8
MaxTypes == 24

(* return_cached_input!(ctx, &ident): the id cached under ident, if any *)
return_cached_input(c, ident) ==
    IF \E e \in c : e.ident = ident
    THEN Some((CHOOSE e \in c : e.ident = ident).id)
    ELSE None

(* ctx.cache_input_type(ident, object): push the object, map ident to its id *)
cache_input_type(c, d, ident, object) ==
    [cache |-> {e \in c : e.ident # ident} \cup {[ident |-> ident, id |-> Len(d) + 1]},
     db |-> Append(d, object),
     id |-> Len(d) + 1]

(* the field-less object a constructor registers *)
PlaceholderOf(fn, ident) ==
    CASE fn \in {"to_many_relation_filter_object", "to_one_relation_filter_object"} ->
           set_tag(init_input_object_type(ident), "RelationEnvelope")
      [] fn = "scalar_list_filter_type" ->
           require_exactly_one_field(init_input_object_type(ident))
      [] OTHER -> init_input_object_type(ident)

Frame(c) == [fn |-> c.fn, a |-> c.a, pc |-> 1, id |-> 0, rets |-> <<>>]
Top == stack[Len(stack)]
Cur == Program(Top.fn, Top.a)[Top.pc]
TopIdent == IdentOf(Top.fn, Top.a)
InConstruction(id) == \E k \in 1..Len(stack) : stack[k].id = id
SetTop(fr) == [stack EXCEPT ![Len(stack)] = fr]

(* pop the finished call and hand v to the caller, or to the requester *)
Deliver(v) ==
    IF Len(stack) = 1
    THEN stack' = <<>> /\ ret' = v
    ELSE /\ stack' = SubSeq(stack, 1, Len(stack) - 2)
                     \o << [stack[Len(stack) - 1] EXCEPT !.rets = Append(@, v), !.pc = @ + 1] >>
         /\ UNCHANGED ret

(* the requests that reach the constructors: reading the fields of a where *)
(* object, or of a scalar filter object with aggregates, of some model      *)
TopRequests(d) ==
    { Call("where_object_type_fields", Args("", FALSE, FALSE, FALSE, FALSE, NoField, m)) :
        m \in SeqToSet(Models(d)) }
    \cup { Call("scalar_filter_object_type_fields", Args("", FALSE, FALSE, FALSE, TRUE, NoField, m)) :
             m \in SeqToSet(Models(d)) }

BuildStart ==
    /\ cache = {}
    /\ db = <<>>
    /\ stack = <<>>
    /\ ret = <<>>
    /\ requests = 0
    /\ bodyRuns = [once |-> {}, again |-> {}]
    /\ served = {}

PlainConfig ==
    /\ capabilities = {}
    /\ preview_features = {}
    /\ enable_raw_queries = FALSE

BuildIdle == dm = "cycle2" /\ PlainConfig /\ BuildStart

Request(c) ==
    /\ stack = <<>>
    /\ requests < MaxRequests
    /\ requests' = requests + 1
    /\ stack' = <<Frame(c)>>
    /\ UNCHANGED <<cfgVars, cache, db, ret, bodyRuns, served, notBuild>>

ReturnCached ==
    /\ stack # <<>>
    /\ Cur.op = "return_cached_input"
    /\ LET hit == return_cached_input(cache, TopIdent)
       IN IF hit.some
          THEN /\ Deliver(<<TObjectId(Unwrapped(hit))>>)
               /\ served' = served \cup
                    {[ident |-> TopIdent, id |-> Unwrapped(hit), hit |-> TRUE,
                      placeholder |-> InConstruction(Unwrapped(hit))]}
               /\ UNCHANGED bodyRuns
          ELSE /\ stack' = SetTop([Top EXCEPT !.pc = @ + 1])
               /\ bodyRuns' = IF TopIdent \in bodyRuns.once
                              THEN [bodyRuns EXCEPT !.again = @ \cup {TopIdent}]
                              ELSE [bodyRuns EXCEPT !.once = @ \cup {TopIdent}]
               /\ UNCHANGED <<ret, served>>
    /\ UNCHANGED <<cfgVars, requests, cache, db, notBuild>>

CacheInputType ==
    /\ stack # <<>>
    /\ Cur.op = "cache_input_type"
    /\ Len(db) < MaxTypes
    /\ LET r == cache_input_type(cache, db, TopIdent, PlaceholderOf(Top.fn, TopIdent))
       IN /\ cache' = r.cache
          /\ db' = r.db
          /\ stack' = SetTop([Top EXCEPT !.pc = @ + 1, !.id = r.id])
    /\ UNCHANGED <<cfgVars, requests, ret, bodyRuns, served, notBuild>>

ConstructLazy ==
    /\ stack # <<>>
    /\ Cur.op = "where_object_type"
    /\ stack' = SetTop([Top EXCEPT !.pc = @ + 1])
    /\ UNCHANGED <<cfgVars, requests, cache, db, ret, bodyRuns, served, notBuild>>

CallNested ==
    /\ stack # <<>>
    /\ Cur.op = "call"
    /\ Len(stack) < MaxStack
    /\ stack' = Append(stack, Frame(Cur.call))
    /\ UNCHANGED <<cfgVars, requests, cache, db, ret, bodyRuns, served, notBuild>>

SetFieldsDb ==
    /\ stack # <<>>
    /\ Cur.op = "set_fields"
    /\ db' = [db EXCEPT ![Top.id] = InputObjectType_set_fields(@, FieldsOf(Top.fn, Top.a, Top.rets))]
    /\ stack' = SetTop([Top EXCEPT !.pc = @ + 1])
    /\ UNCHANGED <<cfgVars, requests, cache, ret, bodyRuns, served, notBuild>>

Return ==
    /\ stack # <<>>
    /\ Cur.op = "return"
    /\ Deliver(ResultOf(Top))
    /\ served' = IF Top.id > 0
                 THEN served \cup {[ident |-> TopIdent, id |-> Top.id, hit |-> FALSE,
                                    placeholder |-> FALSE]}
                 ELSE served
    /\ UNCHANGED <<cfgVars, requests, cache, db, bodyRuns, notBuild>>

-----------------------------------------------------------------------------
(* Output object types built by value: identifier, backing model and the    *)
(* closure that computes the fields when they are read.                     *)

LazyObjectType(ident, model, fn, x) ==
    [identifier |-> ident, model |-> model, closure |-> Closure(fn, model, x)]

supports_create_operation(d, m) == ~(d = "nokey" /\ m = "L")

IsToMany(f) == f.kind = "Relation" /\ f.is_list
IsNumericScalar(f) == f.kind = "Scalar" /\ is_numeric(f.typ)
IsNonListNorJson(f) == f.kind = "Scalar" /\ ~f.is_list /\ f.typ # "Json"

RECURSIVE ConcatFrom(_, _)
ConcatFrom(qq, i) == IF i > Len(qq) THEN <<>> ELSE qq[i] \o ConcatFrom(qq, i + 1)
ConcatAll(qq) == ConcatFrom(qq, 1)

model_object_type(model) ==
    LazyObjectType(new_model(<<model>>), model, "model_object_type", "")
aggregation_object_type(model) ==
    LazyObjectType(new_prisma(<<"Aggregate" \o model>>), model, "aggregation_object_type", "")
group_by_output_object_type(model) ==
    LazyObjectType(new_prisma(<<model \o "GroupByOutputType">>), model, "group_by_output_object_type", "")
affected_records_object_type ==
    LazyObjectType(new_prisma(<<"AffectedRowsOutput">>), "", "affected_records_object_type", "")

(* name.trim_start_matches('_'), capitalized *)
AggregationSuffix(name) ==
    CASE name = "_count" -> "Count" [] name = "_avg" -> "Avg" [] name = "_sum" -> "Sum"
      [] name = "_min" -> "Min" [] OTHER -> "Max"

map_field_aggregation_object(model, name) ==
    LazyObjectType(new_prisma(<<model \o AggregationSuffix(name) \o "AggregateOutputType">>),
                   model, "map_field_aggregation_object", name)

aggregation_field(name, model, fields) ==
    IF fields = <<>> THEN None
    ELSE Some(nullable(field(name, <<>>, TObject(map_field_aggregation_object(model, name)), NoInfo)))

(* the scalar fields an aggregation of the given name ranges over *)
AggregatedFields(d, model, name) ==
    IF name = "_count" THEN ScalarFields(d, model)
    ELSE IF name \in {"_avg", "_sum"} THEN SelectSeq(ModelFields(d, model), IsNumericScalar)
    ELSE SelectSeq(ModelFields(d, model), IsNonListNorJson)

map_scalar_output_type_for_field(f) == IF f.is_list THEN TList(TScalar(f.typ)) ELSE TScalar(f.typ)

field_avg_output_type(f) ==
    IF f.typ \in {"Int", "BigInt", "Float"} THEN TScalar("Float")
    ELSE IF f.typ = "Decimal" THEN TScalar("Decimal")
    ELSE map_scalar_output_type_for_field(f)

(* arguments of the root and relation fields; data, ordering and paging     *)
(* arguments are left out                                                   *)
where_unique_ident(model) == new_prisma(<<"WhereUniqueInput", model>>)
where_unique_object_type(model) ==
    LET unique_fields == SelectSeq(ModelFields(dm, model), is_unique)
        constrained_fields ==
            [i \in 1..Len(unique_fields) |-> unique_fields[i].name]
            \o [i \in 1..Len(compound_uniques(model)) |-> compound_uniques(model)[i].name]
            \o [i \in 1..Len(compound_id(model)) |-> compound_id(model)[i].name]
        input_object == init_input_object_type(where_unique_ident(model))
    IN with_closure(
           IF has_feature("ExtendedWhereUnique")
           THEN apply_constraints_on_fields(require_at_least_one_field(input_object),
                                            constrained_fields)
           ELSE require_exactly_one_field(input_object),
           "where_unique_object_type_fields", model, "")
where_argument(model) ==
    optional(input_field("where", <<InputType_object(where_object_type(model))>>))
where_unique_argument(d, model) ==
    IF has_unique(d, model)
    THEN Some(input_field("where", <<InputType_object(where_unique_object_type(model))>>))
    ELSE None
relation_to_many_selection_arguments(model) == << where_argument(model) >>
group_by_arguments(model) ==
    << where_argument(model),
       optional(input_field("having",
           <<InputType_object(scalar_filter_object_type(model, TRUE))>>)) >>

-----------------------------------------------------------------------------
(* The field closures of the output object types.                           *)

(* field::map_output_field: a scalar field gives its scalar type, a         *)
(* relation field the object type of the related model, built lazily        *)
map_output_field(f) ==
    IF f.kind = "Relation" /\ f.is_list
    THEN field(f.name, relation_to_many_selection_arguments(f.related),
               TList(TObject(model_object_type(f.related))), NoInfo)
    ELSE IF f.kind = "Relation"
    THEN nullable_if(field(f.name, <<>>, TObject(model_object_type(f.related)), NoInfo),
                     ~f.is_required)
    ELSE nullable_if(field(f.name, <<>>, map_scalar_output_type_for_field(f), NoInfo),
                     ~f.is_required)

compute_model_object_type_fields(model) ==
    [i \in 1..Len(ModelFields(dm, model)) |-> map_output_field(ModelFields(dm, model)[i])]

(* field::aggregation_relation_field: the _count field over the to-many     *)
(* relations, absent when there is none                                     *)
aggregation_relation_field(name, model, relation_fields) ==
    IF relation_fields = <<>> THEN None
    ELSE Some(field(name, <<>>,
                    TObject(LazyObjectType(new_prisma(<<model \o "CountOutputType">>), model,
                                           "aggregation_relation_field", name)),
                    NoInfo))

model_object_type_fields(model) ==
    compute_model_object_type_fields(model)
    \o aggregation_relation_field("_count", model,
           SelectSeq(ModelFields(dm, model), IsToMany)).v

relation_count_fields(model) ==
    LET relation_fields == SelectSeq(ModelFields(dm, model), IsToMany)
    IN [i \in 1..Len(relation_fields) |->
          field(relation_fields[i].name, <<>>, TScalar("Int"), NoInfo)]

(* the five append_opt(aggregation_field(..)) of plain.rs and group_by.rs *)
aggregation_fields(model) ==
    LET names == <<"_count", "_avg", "_sum", "_min", "_max">>
    IN ConcatAll([i \in 1..Len(names) |->
           aggregation_field(names[i], model, AggregatedFields(dm, model, names[i])).v])

scalar_output_fields(model) ==
    LET fields == ScalarFields(dm, model)
    IN [i \in 1..Len(fields) |->
          nullable_if(field(fields[i].name, <<>>, map_scalar_output_type_for_field(fields[i]),
                            NoInfo),
                      ~fields[i].is_required)]

(* the closure of map_field_aggregation_object; _count also carries _all *)
map_field_aggregation_object_fields(model, name) ==
    LET fields == AggregatedFields(dm, model, name)
        type_mapper(sf) == IF name = "_count" THEN TScalar("Int")
                           ELSE IF name = "_avg" THEN field_avg_output_type(sf)
                           ELSE map_scalar_output_type_for_field(sf)
    IN [i \in 1..Len(fields) |->
          nullable_if(field(fields[i].name, <<>>, type_mapper(fields[i]), NoInfo),
                      name # "_count")]
       \o (IF name = "_count" THEN << field("_all", <<>>, TScalar("Int"), NoInfo) >> ELSE <<>>)

-----------------------------------------------------------------------------
(* The root types (query_type.rs, mutation_type.rs): the fields their       *)
(* closures compute, per model in model order.                              *)

query_type_build(d) ==
    LET find_first_field(model) ==
            nullable(field("findFirst" \o model, relation_to_many_selection_arguments(model),
                           TObject(model_object_type(model)), QueryInfo(model, "FindFirst")))
        find_first_or_throw_field(model) ==
            nullable(field("findFirst" \o model \o "OrThrow",
                           relation_to_many_selection_arguments(model),
                           TObject(model_object_type(model)), QueryInfo(model, "FindFirstOrThrow")))
        all_items_field(model) ==
            field("findMany" \o model, relation_to_many_selection_arguments(model),
                  TList(TObject(model_object_type(model))), QueryInfo(model, "FindMany"))
        plain_aggregation_field(model) ==
            field("aggregate" \o model, relation_to_many_selection_arguments(model),
                  TObject(aggregation_object_type(model)), QueryInfo(model, "Aggregate"))
        group_by_aggregation_field(model) ==
            field("groupBy" \o model, group_by_arguments(model),
                  TList(TObject(group_by_output_object_type(model))), QueryInfo(model, "GroupBy"))
        find_unique_field(model) ==
            IF where_unique_argument(d, model).some
            THEN Some(nullable(field("findUnique" \o model, where_unique_argument(d, model).v,
                                     TObject(model_object_type(model)),
                                     QueryInfo(model, "FindUnique"))))
            ELSE None
        find_unique_or_throw_field(model) ==
            IF where_unique_argument(d, model).some
            THEN Some(nullable(field("findUnique" \o model \o "OrThrow",
                                     where_unique_argument(d, model).v,
                                     TObject(model_object_type(model)),
                                     QueryInfo(model, "FindUniqueOrThrow"))))
            ELSE None
        mongo_find_raw_field(model) ==
            field("find" \o model \o "Raw",
                  << optional(input_field("filter", <<TScalar("Json")>>)),
                     optional(input_field("options", <<TScalar("Json")>>)) >>,
                  TScalar("Json"), QueryInfo(model, "FindRaw"))
        mongo_aggregate_raw_field(model) ==
            field("aggregate" \o model \o "Raw",
                  << optional(input_field("pipeline", <<TList(TScalar("Json"))>>)),
                     optional(input_field("options", <<TScalar("Json")>>)) >>,
                  TScalar("Json"), QueryInfo(model, "AggregateRaw"))
        of_model(model) ==
            << find_first_field(model), find_first_or_throw_field(model),
               all_items_field(model), plain_aggregation_field(model),
               group_by_aggregation_field(model) >>
            \o find_unique_field(model).v
            \o find_unique_or_throw_field(model).v
            \o (IF enable_raw_queries /\ has_capability("MongoDbQueryRaw")
                THEN << mongo_find_raw_field(model), mongo_aggregate_raw_field(model) >>
                ELSE <<>>)
    IN ConcatAll([i \in 1..Len(Models(d)) |-> of_model(Models(d)[i])])

(* create_one and create_many come from the mutations module: createOne is  *)
(* always there, createMany needs the connector's CreateMany capability     *)
create_one(model) ==
    field("createOne" \o model, <<>>, TObject(model_object_type(model)),
          QueryInfo(model, "CreateOne"))
create_many(model) ==
    IF has_capability("CreateMany")
    THEN Some(field("createMany" \o model, <<>>, TObject(affected_records_object_type),
                    QueryInfo(model, "CreateMany")))
    ELSE None

(* a Mutation type of the create-one fields alone, one for every model,   *)
(* whether the model supports creation or not                              *)
mutation_type_build_create_one_only(d) ==
    [i \in 1..Len(Models(d)) |-> create_one(Models(d)[i])]

mutation_type_build(d) ==
    LET upsert_item_field(model) ==
            IF where_unique_argument(d, model).some
            THEN Some(field("upsertOne" \o model, where_unique_argument(d, model).v,
                            TObject(model_object_type(model)), QueryInfo(model, "UpsertOne")))
            ELSE None
        delete_item_field(model) ==
            IF where_unique_argument(d, model).some
            THEN Some(nullable(field("deleteOne" \o model, where_unique_argument(d, model).v,
                                     TObject(model_object_type(model)),
                                     QueryInfo(model, "DeleteOne"))))
            ELSE None
        update_item_field(model) ==
            IF where_unique_argument(d, model).some
            THEN Some(nullable(field("updateOne" \o model, where_unique_argument(d, model).v,
                                     TObject(model_object_type(model)),
                                     QueryInfo(model, "UpdateOne"))))
            ELSE None
        update_many_field(model) ==
            field("updateMany" \o model, <<where_argument(model)>>,
                  TObject(affected_records_object_type), QueryInfo(model, "UpdateMany"))
        delete_many_field(model) ==
            field("deleteMany" \o model, <<where_argument(model)>>,
                  TObject(affected_records_object_type), QueryInfo(model, "DeleteMany"))
        raw_args ==
            << input_field("query", <<TScalar("String")>>),
               optional(input_field("parameters", <<TScalar("JsonList")>>)) >>
        create_execute_raw_field ==
            field("executeRaw", raw_args, TScalar("Json"), QueryInfo("", "ExecuteRaw"))
        create_query_raw_field ==
            field("queryRaw", raw_args, TScalar("Json"), QueryInfo("", "QueryRaw"))
        create_mongodb_run_command_raw ==
            field("runCommandRaw", << input_field("command", <<TScalar("Json")>>) >>,
                  TScalar("Json"), QueryInfo("", "RunCommandRaw"))
        of_model(model) ==
            (IF supports_create_operation(d, model)
             THEN << create_one(model) >> \o upsert_item_field(model).v \o create_many(model).v
             ELSE <<>>)
            \o delete_item_field(model).v
            \o update_item_field(model).v
            \o << update_many_field(model), delete_many_field(model) >>
    IN ConcatAll([i \in 1..Len(Models(d)) |-> of_model(Models(d)[i])])
       \o (IF enable_raw_queries /\ has_capability("SqlQueryRaw")
           THEN << create_execute_raw_field, create_query_raw_field >> ELSE <<>>)
       \o (IF enable_raw_queries /\ has_capability("MongoDbQueryRaw")
           THEN << create_mongodb_run_command_raw >> ELSE <<>>)

-----------------------------------------------------------------------------
(* QuerySchema (query_schema.rs): the two maps from QueryInfo to the        *)
(* position of the field in its root type.                                  *)

HashMap_insert(map, key, value) ==
    {e \in map : e.key # key} \cup {[key |-> key, value |-> value]}
HashMap_get(map, key) ==
    IF \E e \in map : e.key = key
    THEN Some((CHOOSE e \in map : e.key = key).value)
    ELSE None

(* for (field_idx, field) in fields.enumerate(): insert when query_info is Some *)
RECURSIVE index_fields(_, _, _)
index_fields(fields, field_idx, map) ==
    IF field_idx >= Len(fields) THEN map
    ELSE index_fields(fields, field_idx + 1,
             IF fields[field_idx + 1].query_info # NoInfo
             THEN HashMap_insert(map, fields[field_idx + 1].query_info, field_idx)
             ELSE map)

nth_one_based(fields, idx) ==
    IF idx \in 1..Len(fields) THEN Some(fields[idx]) ELSE None

(* Iterator::nth: positions count from 0 *)
nth(fields, idx) ==
    IF idx < Len(fields) THEN Some(fields[idx + 1]) ELSE None

(* a name taken for a model whether the data model has it or not *)
find_model_of_any_name(model_name) ==
    IF model_name.some THEN Unwrapped(model_name) ELSE ""

(* model_name.and_then(|name| find_model(name).ok()); "" stands for None *)
find_model(model_name) ==
    IF model_name.some /\ Unwrapped(model_name) \in SeqToSet(Models(dm))
    THEN Unwrapped(model_name) ELSE ""

find_query_field_by_model_and_action(qs, model_name, tag) ==
    LET idx == HashMap_get(qs.query_map, QueryInfo(find_model(model_name), tag))
    IN IF idx.some THEN nth(query_type_build(dm), Unwrapped(idx)) ELSE None

find_mutation_field_by_model_and_action(qs, model_name, tag) ==
    LET idx == HashMap_get(qs.mutation_map, QueryInfo(find_model(model_name), tag))
    IN IF idx.some THEN nth(mutation_type_build(dm), Unwrapped(idx)) ELSE None

QueryTags ==
    {"FindUnique", "FindUniqueOrThrow", "FindFirst", "FindFirstOrThrow", "FindMany",
     "CreateOne", "CreateMany", "UpdateOne", "UpdateMany", "DeleteOne", "DeleteMany",
     "UpsertOne", "Aggregate", "GroupBy", "ExecuteRaw", "QueryRaw", "RunCommandRaw",
     "FindRaw", "AggregateRaw"}

ModelNames == {None} \cup { Some(n) : n \in {"A", "B", "C", "L", "Zed"} }

CapabilitySets ==
    { {}, {"SqlQueryRaw", "CreateMany", "InsensitiveFilters"}, {"MongoDbQueryRaw"} }

NoFound == [root |-> "", model_name |-> None, tag |-> "", result |-> None]

IndexIdle ==
    /\ query_schema = [built |-> FALSE, query_map |-> {}, mutation_map |-> {}]
    /\ found = NoFound

QuerySchema_new ==
    /\ ~query_schema.built
    /\ query_schema' = [built |-> TRUE,
                        query_map |-> index_fields(query_type_build(dm), 0, {}),
                        mutation_map |-> index_fields(mutation_type_build(dm), 0, {})]
    /\ UNCHANGED <<found, cfgVars, notIndex>>

FindQueryField(model_name, tag) ==
    /\ query_schema.built
    /\ found' = [root |-> "query", model_name |-> model_name, tag |-> tag,
                 result |-> find_query_field_by_model_and_action(query_schema, model_name, tag)]
    /\ UNCHANGED <<query_schema, cfgVars, notIndex>>

FindMutationField(model_name, tag) ==
    /\ query_schema.built
    /\ found' = [root |-> "mutation", model_name |-> model_name, tag |-> tag,
                 result |-> find_mutation_field_by_model_and_action(query_schema, model_name, tag)]
    /\ UNCHANGED <<query_schema, cfgVars, notIndex>>

-----------------------------------------------------------------------------
(* The DMMF rendering traversal (schema_renderer.rs, type_renderer.rs).     *)
(* The RenderContext keeps the identifiers already rendered and the list of *)
(* types marked for the next pass.                                          *)

query_object_type == LazyObjectType(new_prisma(<<"Query">>), "", "query_type_build", "")
mutation_object_type == LazyObjectType(new_prisma(<<"Mutation">>), "", "mutation_type_build", "")

(* ObjectType::get_fields of an output object built by value: run its closure *)
OutputFields(c) ==
    CASE c.fn = "query_type_build" -> query_type_build(dm)
      [] c.fn = "mutation_type_build" -> mutation_type_build(dm)
      [] c.fn = "model_object_type" -> model_object_type_fields(c.m)
      [] c.fn = "aggregation_object_type" -> aggregation_fields(c.m)
      [] c.fn = "group_by_output_object_type" ->
           scalar_output_fields(c.m) \o aggregation_fields(c.m)
      [] c.fn = "map_field_aggregation_object" -> map_field_aggregation_object_fields(c.m, c.x)
      [] c.fn = "aggregation_relation_field" -> relation_count_fields(c.m)
      [] OTHER -> << field("count", <<>>, TScalar("Int"), NoInfo) >>

(* the closures of input objects that ask the registry for nested types *)
RegistryClosures ==
    {"where_object_type_fields", "scalar_filter_object_type_fields",
     "where_unique_object_type_fields"}

(* the call that runs the field closure c of an input object *)
ClosureCall(c) ==
    Call(c.fn, Args("", FALSE, FALSE, FALSE, c.x = "true", NoField, c.m))

(* a type on its way through the renderer: where it was met, and the type *)
Ref(loc, t) == [loc |-> loc, t |-> t]
KeyOf(item) == IF item.t.id > 0 THEN db[item.t.id].identifier ELSE item.t.ident

RenderContext_new == [rendered |-> {}, next_pass |-> <<>>]

mark_to_be_rendered(ctx, item) ==
    IF KeyOf(item) \in ctx.rendered THEN ctx
    ELSE [ctx EXCEPT !.next_pass = Append(@, item)]

RECURSIVE render_output_type(_, _)
render_output_type_flat(output_type, ctx) ==
    IF output_type.depth > 0 THEN ctx
    ELSE IF output_type.k \in {"Object", "Enum"}
    THEN mark_to_be_rendered(ctx, Ref(IF output_type.k = "Enum" THEN "enum" ELSE "out", output_type))
    ELSE ctx

render_output_type(output_type, ctx) ==
    IF output_type.depth > 0
    THEN render_output_type([output_type EXCEPT !.depth = @ - 1], ctx)
    ELSE IF output_type.k \in {"Object", "Enum"}
    THEN mark_to_be_rendered(ctx, Ref(IF output_type.k = "Enum" THEN "enum" ELSE "out", output_type))
    ELSE ctx

RECURSIVE render_input_type(_, _)
render_input_type(input_type, ctx) ==
    IF input_type.depth > 0
    THEN render_input_type([input_type EXCEPT !.depth = @ - 1], ctx)
    ELSE IF input_type.k \in {"Object", "Enum"}
    THEN mark_to_be_rendered(ctx, Ref(IF input_type.k = "Enum" THEN "enum" ELSE "in", input_type))
    ELSE ctx

(* render_input_types: each type in turn; a type only ever appends to the  *)
(* types marked for the next pass                                           *)
render_input_types(input_types, ctx) ==
    [ctx EXCEPT !.next_pass = @ \o ConcatAll(
        [i \in 1..Len(input_types) |->
            render_input_type(input_types[i], [ctx EXCEPT !.next_pass = <<>>]).next_pass])]

(* rendering an object renders the types of its fields and of their        *)
(* arguments, which marks them for the next pass                            *)
render_input_fields(fields, ctx) ==
    [ctx EXCEPT !.next_pass = @ \o ConcatAll(
        [i \in 1..Len(fields) |->
            render_input_types(fields[i].field_types, [ctx EXCEPT !.next_pass = <<>>]).next_pass])]

render_output_fields(fields, ctx) ==
    [ctx EXCEPT !.next_pass = @ \o ConcatAll(
        [i \in 1..Len(fields) |->
            render_output_type(fields[i].field_type,
                render_input_fields(fields[i].arguments,
                                    [ctx EXCEPT !.next_pass = <<>>])).next_pass])]

(* the fields of an input object that are at hand without the registry *)
InputFieldsAtHand(t) ==
    IF t.id > 0 THEN db[t.id].fields
    ELSE IF t.closure.fn = "field_ref_input_object_type"
    THEN << input_field("_ref", <<TScalar("String")>>) >>
    ELSE IF t.closure.fn = "compound_field_unique_object_type"
    THEN LET from_fields == compound_from_fields(t.closure.m, t.closure.x)
         IN [i \in 1..Len(from_fields) |->
                input_field(from_fields[i].name,
                    <<map_scalar_input_type(from_fields[i].typ, from_fields[i].is_list)>>)]
    ELSE <<>>

NeedsRegistry(item) ==
    item.loc = "in" /\ item.t.id = 0 /\ item.t.closure.fn \in RegistryClosures

RenderIdle ==
    /\ rpc = "idle"
    /\ next_pass = <<>>
    /\ rendered = {}
    /\ renderLog = <<>>

(* DmmfSchemaRenderer::render: the two roots *)
DmmfSchemaRenderer_render ==
    /\ rpc = "idle"
    /\ LET ctx == render_output_type(TObject(mutation_object_type),
                      render_output_type(TObject(query_object_type), RenderContext_new))
       IN /\ next_pass' = ctx.next_pass
          /\ rendered' = ctx.rendered
    /\ rpc' = "pass"
    /\ UNCHANGED <<renderLog, stack, ret, notRender>>

(* a renderer of a type that has been rendered meanwhile returns at once *)
RenderSkip ==
    /\ rpc = "pass" /\ next_pass # <<>>
    /\ KeyOf(Head(next_pass)) \in rendered
    /\ next_pass' = Tail(next_pass)
    /\ UNCHANGED <<rpc, rendered, renderLog, stack, ret, notRender>>

(* get_fields of an input object built by value runs its closure, which    *)
(* asks the registry for the nested types                                   *)
RenderForce ==
    /\ rpc = "pass" /\ next_pass # <<>>
    /\ KeyOf(Head(next_pass)) \notin rendered
    /\ NeedsRegistry(Head(next_pass))
    /\ stack' = << Frame(ClosureCall(Head(next_pass).t.closure)) >>
    /\ rpc' = "fields"
    /\ UNCHANGED <<next_pass, rendered, renderLog, ret, notRender>>

(* get_fields of any other type: the closure of an output object, the      *)
(* fields set in the arena; an enum has none                                *)
RenderRead ==
    /\ rpc = "pass" /\ next_pass # <<>>
    /\ KeyOf(Head(next_pass)) \notin rendered
    /\ ~NeedsRegistry(Head(next_pass))
    /\ ret' = IF Head(next_pass).loc = "enum" THEN <<>>
              ELSE IF Head(next_pass).loc = "out"
              THEN OutputFields(Head(next_pass).t.closure)
              ELSE InputFieldsAtHand(Head(next_pass).t)
    /\ rpc' = "fields"
    /\ UNCHANGED <<next_pass, rendered, renderLog, stack, notRender>>

(* with the fields at hand: render their types, then the type is rendered *)
RenderFields ==
    /\ rpc = "fields" /\ stack = <<>>
    /\ LET ctx0 == [rendered |-> rendered, next_pass |-> Tail(next_pass)]
           ctx == IF Head(next_pass).loc = "out" THEN render_output_fields(ret, ctx0)
                  ELSE render_input_fields(ret, ctx0)
       IN /\ next_pass' = ctx.next_pass
          /\ rendered' = ctx.rendered \cup {KeyOf(Head(next_pass))}
    /\ renderLog' = Append(renderLog, KeyOf(Head(next_pass)))
    /\ rpc' = "pass"
    /\ UNCHANGED <<stack, ret, notRender>>

RenderDone ==
    /\ rpc = "pass" /\ next_pass = <<>>
    /\ rpc' = "done"
    /\ UNCHANGED <<next_pass, rendered, renderLog, stack, ret, notRender>>

(* Raw argument values of a query document.  A numeric literal is kept as  *)
(* written: sign, decimal digits of the integer part (no leading zero      *)
(* except for 0 itself) and digits of the fraction; its magnitude is       *)
(* compared digit by digit, as no machine integer holds every literal.     *)

Literal(negative, digits, fraction) ==
    [negative |-> negative, digits |-> digits, fraction |-> fraction]
Zeros(n) == [i \in 1..n |-> 0]

NumberValue(lit) == [k |-> "Number", v |-> lit]
StringValue(s) == [k |-> "String", v |-> s]
BooleanValue(b) == [k |-> "Boolean", v |-> b]
NullValue == [k |-> "Null", v |-> <<>>]
ListValue(vs) == [k |-> "List", v |-> vs]
ObjectValue(pairs) == [k |-> "Object", v |-> pairs]
Pair(name, value) == [name |-> name, value |-> value]

(* i64::MAX = 9223372036854775807 and the magnitude of i64::MIN *)
I64MaxDigits == <<9, 2, 2, 3, 3, 7, 2, 0, 3, 6, 8, 5, 4, 7, 7, 5, 8, 0, 7>>
I64MinDigits == <<9, 2, 2, 3, 3, 7, 2, 0, 3, 6, 8, 5, 4, 7, 7, 5, 8, 0, 8>>

DigitsLess(a, b) ==
    \/ Len(a) < Len(b)
    \/ /\ Len(a) = Len(b)
       /\ \E i \in 1..Len(a) : a[i] < b[i] /\ \A j \in 1..(i - 1) : a[j] = b[j]

IsIntegral(lit) == \A i \in 1..Len(lit.fraction) : lit.fraction[i] = 0

(* the literal lies in [i64::MIN, i64::MAX] *)
fits_i64(lit) ==
    LET limit == IF lit.negative THEN I64MinDigits ELSE I64MaxDigits
    IN DigitsLess(lit.digits, limit) \/ (lit.digits = limit /\ IsIntegral(lit))

DigitChar(d) ==
    CASE d = 0 -> "0" [] d = 1 -> "1" [] d = 2 -> "2" [] d = 3 -> "3" [] d = 4 -> "4"
      [] d = 5 -> "5" [] d = 6 -> "6" [] d = 7 -> "7" [] d = 8 -> "8" [] OTHER -> "9"

RECURSIVE DigitString(_)
DigitString(ds) == IF ds = <<>> THEN "" ELSE DigitChar(Head(ds)) \o DigitString(Tail(ds))

(* the literal as text *)
Literal_to_string(lit) ==
    (IF lit.negative THEN "-" ELSE "") \o DigitString(lit.digits)
    \o (IF lit.fraction = <<>> THEN "" ELSE "." \o DigitString(lit.fraction))

(* the text of a raw value as the error messages quote it *)
Value_to_string(value) ==
    CASE value.k = "Number" -> Literal_to_string(value.v)
      [] value.k = "String" -> value.v
      [] value.k = "Boolean" -> B(value.v)
      [] value.k = "Null" -> "null"
      [] value.k = "List" -> "[..]"
      [] OTHER -> "{..}"

-----------------------------------------------------------------------------
(* Validation of a query document against the output schema.                *)
(* A selection names a field, provides arguments (by name, in the order     *)
(* written) and may carry a nested selection set.                           *)

MaxSelections == 2      \* selections per selection set
MaxNesting == 1         \* levels of selection sets below the root field

Selection(name, arguments, nested) ==
    [name |-> name, arguments |-> arguments, nested |-> nested]

(* ValidationError { kind, message, selection_path, meta } *)
(* an error whose kind is the variant no constructor names *)
ValidationError_of_union_kind(kind, message, selection_path, meta) ==
    [kind |-> "Union", message |-> message, selection_path |-> selection_path, meta |-> meta]

ValidationError(kind, message, selection_path, meta) ==
    [kind |-> kind, message |-> message, selection_path |-> selection_path, meta |-> meta]

OutputTypeDescriptionField(name, type_name, is_relation) ==
    [name |-> name, type_name |-> type_name, is_relation |-> is_relation]
OutputTypeDescription(name, fields) == [name |-> name, fields |-> fields]
ArgumentDescription(name, type_names) == [name |-> name, type_names |-> type_names]

empty_selection(selection_path, output_type_description) ==
    ValidationError("EmptySelection", "Expected a minimum of 1 field to be present, got 0",
                    selection_path, Some([outputType |-> output_type_description]))

(* argument_path.join(".") *)
RECURSIVE join(_)
join(path) ==
    IF path = <<>> THEN ""
    ELSE IF Len(path) = 1 THEN path[1]
    ELSE path[1] \o "." \o join(Tail(path))

(* the message quotes the argument path between grave accents, written ' here *)
required_argument_missing(selection_path, argument_path, input_type_description) ==
    ValidationError("RequiredArgumentMissing",
                    "'" \o join(argument_path) \o "': A value is required but not set",
                    selection_path,
                    Some([inputType |-> input_type_description,
                          argumentPath |-> argument_path]))

unknown_argument(selection_path, argument_path, arguments) ==
    ValidationError("UnkownArgument", "Argument does not exist in enclosing type",
                    selection_path,
                    Some([argumentPath |-> argument_path, arguments |-> arguments]))

unkown_selection_field(field_name, selection_path, output_type_description) ==
    ValidationError("UnknownSelectionField",
                    "Field '" \o field_name \o "' not found in enclosing type '"
                        \o output_type_description.name \o "'",
                    selection_path, Some([outputType |-> output_type_description]))

selection_set_on_scalar_of_parent(field_name, selection_path) ==
    ValidationError("SelectionSetOnScalar",
                    "Cannot select over scalar field '" \o field_name \o "'",
                    SubSeq(selection_path, 1, Len(selection_path) - 1), None)

selection_set_on_scalar(field_name, selection_path) ==
    ValidationError("SelectionSetOnScalar",
                    "Cannot select over scalar field '" \o field_name \o "'",
                    selection_path, None)

(* Identifier::name of an output object, and the name of an output type *)
ObjectType_name(o) == o.identifier.name[1]
OutputType_name(t) ==
    IF t.k = "Scalar" THEN t.scalar ELSE IF t.ident.name = <<>> THEN "" ELSE t.ident.name[1]

(* the object a field's type refers to, with its field cell filled in *)
ObjectTypeOf(t) ==
    set_fields(ObjectType_new(t.ident, t.closure.m), OutputFields(t.closure)).self

(* the description of the enclosing type an error carries *)
describe_output_type(o) ==
    LET fs == get_fields(o).val
    IN OutputTypeDescription(ObjectType_name(o),
           [i \in 1..Len(fs) |->
               OutputTypeDescriptionField(fs[i].name, OutputType_name(fs[i].field_type),
                                          fs[i].field_type.k = "Object")])

InputTypeDescriptionField(name, type_names, required) ==
    [name |-> name, type_names |-> type_names, required |-> required]
InputTypeDescription(name, fields) == [name |-> name, fields |-> fields]

InputTypeConstraints_new_without_fields(min, max, fields, got) ==
    [min |-> min, max |-> max, fields |-> None, got |-> got]

(* InputTypeConstraints { min, max, fields, got } *)
InputTypeConstraints_new(min, max, fields, got) ==
    [min |-> min, max |-> max, fields |-> fields, got |-> got]

(* impl fmt::Display for InputTypeConstraints *)
InputTypeConstraints_fmt(self) ==
    LET got == ToString(self.got)
        of_fields ==
            IF self.fields.some
            THEN " of (" \o join_with(Unwrapped(self.fields), ", ") \o ")"
            ELSE ""
    IN IF self.min = Some(1) /\ self.max = Some(1)
       THEN "Expected exactly one field" \o of_fields \o " to be present, got " \o got \o "."
       ELSE IF self.min.some /\ self.max.some
       THEN "Expected a minimum of " \o ToString(Unwrapped(self.min)) \o " and at most "
                \o ToString(Unwrapped(self.max)) \o " fields" \o of_fields
                \o " to be present, got " \o got \o "."
       ELSE IF self.min.some
       THEN "Expected a minimum of " \o ToString(Unwrapped(self.min)) \o " fields" \o of_fields
                \o " to be present, got " \o got \o "."
       ELSE IF self.max.some
       THEN "Expected at most " \o ToString(Unwrapped(self.max)) \o " fields" \o of_fields
                \o " to be present, got " \o got \o "."
       ELSE "Expected any selection of fields, got " \o got \o "."

invalid_argument_type_of_first(selection_path, argument_path, argument) ==
    ValidationError("InvalidArgumentType",
                    "Invalid argument type. '" \o argument.name
                        \o "' should be of any of the following types: '"
                        \o argument.type_names[1] \o "'",
                    selection_path,
                    Some([argumentPath |-> argument_path,
                          argument |-> ArgumentDescription(argument.name,
                                                           <<argument.type_names[1]>>)]))

(* the messages quote names between grave accents, written ' here *)
invalid_argument_type(selection_path, argument_path, argument) ==
    ValidationError("InvalidArgumentType",
                    "Invalid argument type. '" \o argument.name
                        \o "' should be of any of the following types: '"
                        \o join_with(argument.type_names, ", ") \o "'",
                    selection_path,
                    Some([argumentPath |-> argument_path, argument |-> argument]))

(* argument_path.last().expect(..): an empty argument path is fatal; the   *)
(* underlying error, if any, is its text                                   *)
invalid_argument_value(selection_path, argument_path, value, expected_argument_type,
                       underlying_err) ==
    LET argument_name == argument_path[Len(argument_path)]
        argument == ArgumentDescription(argument_name, <<expected_argument_type>>)
    IN ValidationError("InvalidArgumentValue",
                       "Invalid argument agument value. '" \o value \o "' is not a valid '"
                           \o expected_argument_type \o "'"
                           \o (IF underlying_err.some
                               THEN ". Underlying error: " \o Unwrapped(underlying_err)
                               ELSE ""),
                       selection_path,
                       Some([argumentPath |-> argument_path, argument |-> argument,
                             underlying_error |-> underlying_err]))

some_fields_missing(selection_path, argument_path, min_field_count, max_field_count, required_fields, provided_field_count) ==
    LET constraints == InputTypeConstraints_new(min_field_count, max_field_count,
                                                required_fields, provided_field_count)
    IN ValidationError("SomeFieldsMissing",
                       "Some fields are missing: " \o InputTypeConstraints_fmt(constraints),
                       selection_path, Some([argumentPath |-> argument_path]))

too_many_fields_given(selection_path, argument_path, min_field_count, max_field_count, required_fields, provided_field_count) ==
    LET constraints == InputTypeConstraints_new(min_field_count, max_field_count,
                                                required_fields, provided_field_count)
    IN ValidationError("TooManyFieldsGiven",
                       "Too many fields given: " \o InputTypeConstraints_fmt(constraints),
                       selection_path, Some([argumentPath |-> argument_path]))

unknown_input_field(selection_path, input_type_description) ==
    ValidationError("UnknownInputField",
                    "'" \o join(selection_path) \o "': Field does not exist in enclosing type.",
                    selection_path, Some([inputType |-> input_type_description]))

value_too_large_as_type_mismatch(selection_path, argument_path, value) ==
    ValidationError("InvalidArgumentType",
                    "Invalid argument type. '" \o argument_path[Len(argument_path)]
                        \o "' should be of any of the following types: 'BigInt'",
                    selection_path,
                    Some([argumentPath |-> argument_path,
                          argument |-> ArgumentDescription(argument_path[Len(argument_path)],
                                                           <<"BigInt">>)]))

value_too_large(selection_path, argument_path, value) ==
    LET argument_name == argument_path[Len(argument_path)]
        argument == ArgumentDescription(argument_name, <<"BigInt">>)
    IN ValidationError("ValueTooLarge",
                       "Unable to fit float value (or large JS integer serialized in exponent notation) '"
                           \o value \o "' into a 64 Bit signed integer for field '"
                           \o argument_name
                           \o "'. If you're trying to store large integers, consider using 'BigInt'",
                       selection_path,
                       Some([argumentPath |-> argument_path, argument |-> argument]))

(* the fields and nested types of a registry closure, read off the cache *)
CachedResult(c) ==
    LET inner == Program(c.fn, c.a)[1].call
        hit == return_cached_input(cache, IdentOf(inner.fn, inner.a))
    IN ResultOf([Frame(c) EXCEPT
                   !.rets = << <<TObjectId(IF hit.some THEN Unwrapped(hit) ELSE 0)>> >>])

IsCallInstr(i) == i.op = "call"

FieldsFromCache(c) ==
    LET calls == SelectSeq(Program(ClosureCall(c).fn, ClosureCall(c).a), IsCallInstr)
    IN ResultOf([Frame(ClosureCall(c)) EXCEPT
                   !.rets = [i \in 1..Len(calls) |-> CachedResult(calls[i].call)]])

(* ParsedInputValue: Single, List and Map; a map carries the tag of the    *)
(* input object it was parsed as.  OrderBy and ScalarField are built by    *)
(* later stages and do not come out of the validation.                     *)
ParsedInputValue_Single(value) == [k |-> "Single", v |-> value]
ParsedInputValue_List(values) == [k |-> "List", v |-> values]
ParsedInputValue_Map_without_entries(tag, map) ==
    [k |-> "Map", v |-> [map |-> <<>>, tag |-> tag]]
ParsedInputValue_Map(tag, map) == [k |-> "Map", v |-> [map |-> map, tag |-> tag]]

(* QueryParserResult: the parsed value or the errors of the branch *)
Parsed(p) == [errors |-> <<>>, parsed |-> Some(p)]
Failed(es) == [errors |-> es, parsed |-> None]
AllParsed(results) == \A i \in 1..Len(results) : results[i].errors = <<>>
ErrorsOf(results) == ConcatAll([i \in 1..Len(results) |-> results[i].errors])

(* the name of an input type as the error payloads give it *)
Identifier_name(id) == join_with(id.name, "")
RECURSIVE InputType_name(_)
InputType_name(t) ==
    IF t.depth > 0 THEN InputType_name([t EXCEPT !.depth = @ - 1]) \o "[]"
    ELSE IF t.k = "Scalar" THEN t.scalar
    ELSE IF t.id > 0 THEN Identifier_name(db[t.id].identifier)
    ELSE Identifier_name(t.ident)

(* the input object a type refers to: the arena slot of an id, or the      *)
(* object a by-value reference carries, with its fields read               *)
InputObjectFields(t) ==
    IF t.id > 0 THEN db[t.id].fields
    ELSE IF t.closure.fn \in RegistryClosures THEN FieldsFromCache(t.closure)
    ELSE InputFieldsAtHand(t)

InputObjectTypeOf(t) ==
    LET carried ==
            IF t.id > 0 THEN db[t.id]
            ELSE IF t.closure.fn = "where_unique_object_type_fields"
            THEN where_unique_object_type(t.closure.m)
            ELSE IF t.closure.fn = "where_object_type_fields"
            THEN where_object_type(t.closure.m)
            ELSE IF t.closure.fn = "scalar_filter_object_type_fields"
            THEN scalar_filter_object_type(t.closure.m, t.closure.x = "true")
            ELSE with_closure(init_input_object_type(t.ident), t.closure.fn, t.closure.m,
                              t.closure.x)
    IN InputObjectType_set_fields(carried, InputObjectFields(t))

TypeNames(field_types) == [j \in 1..Len(field_types) |-> InputType_name(field_types[j])]

describe_input_field(f) ==
    InputTypeDescriptionField(f.name, TypeNames(f.field_types), f.is_required)
describe_input_type(schema_object) ==
    InputTypeDescription(Identifier_name(schema_object.identifier),
        [i \in 1..Len(schema_object.fields) |-> describe_input_field(schema_object.fields[i])])

(* the date-times the conversion of a string accepts *)
ValidDateTimes == {"2020-01-01T00:00:00Z"}

(* how a raw value stands to one arm of a type union: it matches the arm,  *)
(* it is a number outside the 64-bit range for an integer arm, it has the  *)
(* arm's type but not a value the arm's conversion accepts, or it does not *)
(* match                                                                   *)
ArmOutcome(value, t) ==
    IF t.depth > 0 THEN (IF value.k = "List" THEN "match" ELSE "no")
    ELSE IF t.k = "Object" THEN (IF value.k = "Object" THEN "match" ELSE "no")
    ELSE IF t.k = "Enum" THEN (IF value.k = "Enum" THEN "match" ELSE "no")
    ELSE IF t.scalar \in {"Int", "BigInt"}
    THEN (IF value.k # "Number" THEN "no"
          ELSE IF ~fits_i64(value.v) THEN "too_large"
          ELSE IF IsIntegral(value.v) THEN "match" ELSE "no")
    ELSE IF t.scalar \in {"Float", "Decimal"}
    THEN (IF value.k = "Number" THEN "match" ELSE "no")
    ELSE IF t.scalar = "DateTime"
    THEN (IF value.k # "String" THEN "no"
          ELSE IF value.v \in ValidDateTimes THEN "match" ELSE "invalid_value")
    ELSE IF t.scalar = "Boolean" THEN (IF value.k = "Boolean" THEN "match" ELSE "no")
    ELSE IF t.scalar = "Null" THEN (IF value.k = "Null" THEN "match" ELSE "no")
    ELSE (IF value.k = "String" THEN "match" ELSE "no")

(* the arms of the union in their declared order, and the first that the   *)
(* value matches (0 if none)                                               *)
ArmsWith(value, field_types, outcome) ==
    { j \in 1..Len(field_types) : ArmOutcome(value, field_types[j]) = outcome }
first_matching_arm_last(value, field_types) ==
    LET matching == ArmsWith(value, field_types, "match")
    IN IF matching = {} THEN 0
       ELSE CHOOSE j \in matching : \A m \in matching : m <= j

first_matching_arm(value, field_types) ==
    LET matching == ArmsWith(value, field_types, "match")
    IN IF matching = {} THEN 0
       ELSE CHOOSE j \in matching : \A m \in matching : j <= m

(* the error of a value that matches no arm of the union *)
no_arm_matches(value, schema_input_field, selection_path, argument_path, too_large, invalid) ==
    IF too_large # {}
    THEN Failed(<< value_too_large(selection_path, argument_path, Value_to_string(value)) >>)
    ELSE IF invalid # {}
    THEN Failed(<< invalid_argument_value(selection_path, argument_path,
                       Value_to_string(value),
                       InputType_name(schema_input_field.field_types[
                           CHOOSE j \in invalid : \A m \in invalid : j <= m]),
                       Some("conversion failed")) >>)
    ELSE Failed(<< invalid_argument_type(selection_path, argument_path,
                       ArgumentDescription(schema_input_field.name,
                                           TypeNames(schema_input_field.field_types))) >>)

(* a list is parsed when all of its elements are *)
list_result(elements) ==
    IF AllParsed(elements)
    THEN Parsed(ParsedInputValue_List(
             [i \in 1..Len(elements) |-> Unwrapped(elements[i].parsed)]))
    ELSE Failed(ErrorsOf(elements))

(* an object is parsed when all of its keys are and no required field is   *)
(* missing; the parsed map carries the tag of the input object             *)
object_result(pairs, schema_object, keys, all_missing) ==
    IF AllParsed(keys) /\ all_missing = <<>>
    THEN Parsed(ParsedInputValue_Map(schema_object.tag,
             [i \in 1..Len(pairs) |-> Pair(pairs[i].name, Unwrapped(keys[i].parsed))]))
    ELSE Failed(ErrorsOf(keys) \o all_missing)

(* the value of a scalar or enumeration arm: the raw value converted to   *)
(* the variant of the arm                                                  *)
PrismaValue(variant, value) == [k |-> variant, v |-> value]
to_prisma_value(value, t) ==
    IF t.k = "Enum" THEN PrismaValue("Enum", value.v) ELSE PrismaValue(t.scalar, value.v)

RECURSIVE parse_input_value(_, _, _, _)
RECURSIVE parse_input_object(_, _, _, _)

(* the value against the arm of the union it matched *)
parse_matched(value, schema_input_field, t, selection_path, argument_path) ==
    IF t.depth > 0
    THEN list_result([i \in 1..Len(value.v) |->
             parse_input_value(value.v[i],
                               [schema_input_field EXCEPT !.field_types =
                                   << [t EXCEPT !.depth = @ - 1] >>],
                               selection_path, argument_path)])
    ELSE IF t.k = "Object"
    THEN parse_input_object(value.v, InputObjectTypeOf(t), selection_path, argument_path)
    ELSE Parsed(ParsedInputValue_Single(to_prisma_value(value, t)))

(* a raw value against the type union of an argument or input field *)
parse_input_value(value, schema_input_field, selection_path, argument_path) ==
    IF first_matching_arm(value, schema_input_field.field_types) = 0
    THEN no_arm_matches(value, schema_input_field, selection_path, argument_path,
                        ArmsWith(value, schema_input_field.field_types, "too_large"),
                        ArmsWith(value, schema_input_field.field_types, "invalid_value"))
    ELSE parse_matched(value, schema_input_field,
                       schema_input_field.field_types[
                           first_matching_arm(value, schema_input_field.field_types)],
                       selection_path, argument_path)

(* one key of a raw object, on its own path *)
parse_key(pair, schema_object, declared, selection_path, argument_path) ==
    IF declared = {}
    THEN Failed(<< unknown_input_field(selection_path, describe_input_type(schema_object)) >>)
    ELSE parse_input_value(pair.value, schema_object.fields[CHOOSE j \in declared : TRUE],
                           selection_path, Append(argument_path, pair.name))

(* a required field of the input object that the raw object does not give *)
missing_field(pairs, schema_input_field, selection_path, argument_path) ==
    IF /\ schema_input_field.is_required
       /\ \A i \in 1..Len(pairs) : pairs[i].name # schema_input_field.name
    THEN << required_argument_missing(selection_path,
                Append(argument_path, schema_input_field.name),
                InputTypeDescription(schema_input_field.name,
                                     << describe_input_field(schema_input_field) >>)) >>
    ELSE <<>>

(* the provided fields the constraints are applied on: those of the       *)
(* subset the constraints name, and all of them when they name none        *)
(* (InputObjectTypeConstraints::fields)                                    *)
counted_fields_of_all(pairs, constraints) == Len(pairs)
counted_fields(pairs, constraints) ==
    IF constraints.fields.some
    THEN Len(SelectSeq(pairs,
             LAMBDA p : \E i \in 1..Len(Unwrapped(constraints.fields)) :
                            Unwrapped(constraints.fields)[i] = p.name))
    ELSE Len(pairs)

constrained_result_and_descend(pairs, schema_object, selection_path, argument_path, keys) ==
    IF /\ schema_object.constraints.max_num_fields.some
       /\ counted_fields(pairs, schema_object.constraints) > Unwrapped(schema_object.constraints.max_num_fields)
    THEN Failed(<< too_many_fields_given(selection_path, argument_path,
                       schema_object.constraints.min_num_fields,
                       schema_object.constraints.max_num_fields,
                       schema_object.constraints.fields,
                       counted_fields(pairs, schema_object.constraints)) >> \o keys.errors)
    ELSE IF /\ schema_object.constraints.min_num_fields.some
            /\ counted_fields(pairs, schema_object.constraints) < Unwrapped(schema_object.constraints.min_num_fields)
    THEN Failed(<< some_fields_missing(selection_path, argument_path,
                       schema_object.constraints.min_num_fields,
                       schema_object.constraints.max_num_fields,
                       schema_object.constraints.fields,
                       counted_fields(pairs, schema_object.constraints)) >> \o keys.errors)
    ELSE keys

(* the number of counted keys against the cardinality constraint of the   *)
(* input object: a violation is the error of the object and ends its      *)
(* branch,                                                                 *)
(* otherwise the object has the outcome of its keys                        *)
constrained_result(pairs, schema_object, selection_path, argument_path, keys) ==
    IF /\ schema_object.constraints.max_num_fields.some
       /\ counted_fields(pairs, schema_object.constraints) > Unwrapped(schema_object.constraints.max_num_fields)
    THEN Failed(<< too_many_fields_given(selection_path, argument_path,
                       schema_object.constraints.min_num_fields,
                       schema_object.constraints.max_num_fields,
                       schema_object.constraints.fields,
                       counted_fields(pairs, schema_object.constraints)) >>)
    ELSE IF /\ schema_object.constraints.min_num_fields.some
            /\ counted_fields(pairs, schema_object.constraints) < Unwrapped(schema_object.constraints.min_num_fields)
    THEN Failed(<< some_fields_missing(selection_path, argument_path,
                       schema_object.constraints.min_num_fields,
                       schema_object.constraints.max_num_fields,
                       schema_object.constraints.fields,
                       counted_fields(pairs, schema_object.constraints)) >>)
    ELSE keys

(* the keys of a raw object against an input object type: the number of    *)
(* keys against the cardinality constraint of the type, then every key on  *)
(* its own path, and the required fields that are not given                *)
parse_input_object(pairs, schema_object, selection_path, argument_path) ==
    constrained_result(pairs, schema_object, selection_path, argument_path,
        object_result(pairs, schema_object,
             [i \in 1..Len(pairs) |->
                 parse_key(pairs[i], schema_object,
                           { j \in 1..Len(schema_object.fields) :
                               schema_object.fields[j].name = pairs[i].name },
                           selection_path, argument_path)],
             ConcatAll([j \in 1..Len(schema_object.fields) |->
                 missing_field(pairs, schema_object.fields[j], selection_path,
                               argument_path)])))

(* ParsedArgument, ParsedField, FieldPair and ParsedObject (parse_ast.rs);  *)
(* a FieldPair refers to its schema field, here by the field's name        *)
ParsedArgument(name, value) == [name |-> name, value |-> value]
ParsedField(name, arguments, nested_fields) ==
    [name |-> name, alias |-> None, arguments |-> arguments, nested_fields |-> nested_fields]
FieldPair(parsed_field, schema_field) ==
    [parsed_field |-> parsed_field, schema_field |-> schema_field.name]
ParsedObject(fields) == [fields |-> fields]

lookup_and_keep(arguments, name) ==
    LET at == { i \in 1..Len(arguments) : arguments[i].name = name }
    IN IF at = {} THEN [found |-> None, rest |-> arguments]
       ELSE [found |-> Some(arguments[CHOOSE i \in at : \A j \in at : i <= j]),
             rest |-> arguments]

(* ArgumentListLookup::lookup: the first argument of that name, taken out  *)
(* of the list                                                             *)
lookup(arguments, name) ==
    LET at == { i \in 1..Len(arguments) : arguments[i].name = name }
        pos == CHOOSE i \in at : \A j \in at : i <= j
    IN IF at = {} THEN [found |-> None, rest |-> arguments]
       ELSE [found |-> Some(arguments[pos]),
             rest |-> SubSeq(arguments, 1, pos - 1)
                      \o SubSeq(arguments, pos + 1, Len(arguments))]

(* one declared argument: the value it consumed is parsed; without one, a  *)
(* required argument is missing and an optional one gives nothing          *)
parse_declared(declared_argument, provided, selection_path) ==
    IF provided.some
    THEN << parse_input_value(Unwrapped(provided).value, declared_argument, selection_path,
                              <<declared_argument.name>>) >>
    ELSE IF declared_argument.is_required
    THEN << Failed(<< required_argument_missing(selection_path, <<declared_argument.name>>,
                          InputTypeDescription(declared_argument.name,
                              << describe_input_field(declared_argument) >>)) >>) >>
    ELSE <<>>

named_results(name, result, after) ==
    [results |->
        [i \in 1..Len(result) |->
            [name |-> name, errors |-> result[i].errors, parsed |-> result[i].parsed]]
        \o after.results,
     pool |-> after.pool]

(* the declared arguments, in their order, each consuming the provided     *)
(* argument of its name from the pool; what it returns is the results of   *)
(* the declared arguments and the pool left over                           *)
RECURSIVE consume_arguments(_, _, _)
consume_from(declared, looked, selection_path) ==
    named_results(Head(declared).name,
                  parse_declared(Head(declared), looked.found, selection_path),
                  consume_arguments(Tail(declared), looked.rest, selection_path))

consume_arguments(declared, pool, selection_path) ==
    IF declared = <<>> THEN [results |-> <<>>, pool |-> pool]
    ELSE consume_from(declared, lookup(pool, Head(declared).name), selection_path)

(* every provided argument left in the pool is unknown *)
arguments_result(schema_field, selection_path, consumed) ==
    IF AllParsed(consumed.results) /\ consumed.pool = <<>>
    THEN Parsed([i \in 1..Len(consumed.results) |->
                    ParsedArgument(consumed.results[i].name,
                                   Unwrapped(consumed.results[i].parsed))])
    ELSE Failed(ErrorsOf(consumed.results)
                \o [j \in 1..Len(consumed.pool) |->
                       unknown_argument(selection_path, <<consumed.pool[j].name>>,
                           [i \in 1..Len(schema_field.arguments) |->
                               ArgumentDescription(schema_field.arguments[i].name,
                                   TypeNames(schema_field.arguments[i].field_types))])])

(* the arguments of a field: every declared argument on its own path *)
parse_arguments(schema_field, selection, selection_path) ==
    arguments_result(schema_field, selection_path,
        consume_arguments(schema_field.arguments, selection.arguments, selection_path))

RECURSIVE parse_object(_, _, _)
RECURSIVE parse_field(_, _, _)

selection_set_result(results) ==
    IF AllParsed(results)
    THEN Parsed(ParsedObject([i \in 1..Len(results) |-> Unwrapped(results[i].parsed)]))
    ELSE Failed(ErrorsOf(results))

(* every field of a selection set is validated on its own path *)
parse_object(selections, schema_object, path) ==
    selection_set_result([i \in 1..Len(selections) |->
                             parse_field(selections[i], schema_object, path)])

(* the result of a field whose name resolved, from the results of its      *)
(* arguments and of its nested selection set                               *)
field_result(selection, selection_path, schema_field, nested_type, arguments, nested) ==
    IF schema_field.field_type.k # "Object"
    THEN IF selection.nested # <<>>
         THEN Failed(<< selection_set_on_scalar(selection.name, selection_path) >>)
         ELSE IF arguments.errors # <<>> THEN Failed(arguments.errors)
         ELSE Parsed(FieldPair(ParsedField(selection.name, Unwrapped(arguments.parsed), None),
                               schema_field))
    ELSE IF selection.nested = <<>>
    THEN Failed(<< empty_selection(selection_path, describe_output_type(nested_type)) >>)
    ELSE IF arguments.errors # <<>> THEN Failed(arguments.errors)
    ELSE IF nested.errors # <<>> THEN Failed(nested.errors)
    ELSE Parsed(FieldPair(ParsedField(selection.name, Unwrapped(arguments.parsed),
                                      nested.parsed),
                          schema_field))

typed_field(selection, selection_path, schema_field, nested_type) ==
    field_result(selection, selection_path, schema_field, nested_type,
                 parse_arguments(schema_field, selection, selection_path),
                 parse_object(selection.nested, nested_type, selection_path))

resolved_field(selection, selection_path, schema_object, resolved) ==
    IF ~resolved.some
    THEN Failed(<< unkown_selection_field(selection.name, selection_path,
                                          describe_output_type(schema_object)) >>)
    ELSE typed_field(selection, selection_path, Unwrapped(resolved),
                     ObjectTypeOf(Unwrapped(resolved).field_type))

(* one field: resolve the name, refuse a selection set under a scalar and  *)
(* an empty one under an object, then the arguments, then the children;    *)
(* the field's first error ends the validation of the field                *)
parse_field(selection, schema_object, path) ==
    resolved_field(selection, Append(path, selection.name), schema_object,
                   find_field(schema_object, selection.name).val)

(* the documents checked: one root field of the query operation *)
RootNames == {"findManyA", "findUniqueA", "nope"}
NestedNames == {"id", "b", "nope"}
ProvidedArguments ==
    { <<>>,
      << Pair("where", ObjectValue(<< Pair("id", NumberValue(Literal(FALSE, <<5>>, <<>>))) >>)) >>,
      << Pair("bogus", NullValue) >> }

DistinctNames(sels) == \A i, j \in 1..Len(sels) : sels[i].name = sels[j].name => i = j

RECURSIVE SelectionSets(_)
SelectionSets(depth) ==
    LET below == IF depth = 0 THEN {<<>>} ELSE SelectionSets(depth - 1)
        selections == { Selection(n, <<>>, ns) : n \in NestedNames, ns \in below }
    IN { sels \in SeqsUpTo(selections, MaxSelections) : DistinctNames(sels) }

Documents ==
    { << Selection(n, args, ns) >> :
        n \in RootNames, args \in ProvidedArguments, ns \in SelectionSets(MaxNesting) }

(* the documents checked for the arguments: one root field with one        *)
(* selected scalar and up to MaxArguments provided arguments, a name        *)
(* possibly given twice.  Object values are given where the fields of the   *)
(* input object are at hand or read off the cache.                          *)
MaxArguments == 3

Five == NumberValue(Literal(FALSE, <<5>>, <<>>))
ArgumentPool ==
    << Pair("where", ObjectValue(<< Pair("id", Five) >>)),
       Pair("where", ObjectValue(<<>>)),
       Pair("where", Five),
       Pair("having", ObjectValue(<<>>)),
       Pair("bogus", NullValue) >>
ArgumentRootNames == {"groupByA", "findUniqueA"}

ArgumentChoices == SeqsUpTo(1..Len(ArgumentPool), MaxArguments)
ArgumentDocument(n, choice) ==
    << Selection(n, [i \in 1..Len(choice) |-> ArgumentPool[choice[i]]],
                 << Selection("id", <<>>, <<>>) >>) >>

(* the unions and the raw values checked one against the other: a union  *)
(* of up to MaxArms arms, the first given to the field when it is made,   *)
(* the others appended by add_type or, for Null, by nullable               *)
MaxArms == 3
ArmPool ==
    << TScalar("Int"), TScalar("Float"), TScalar("String"), TScalar("DateTime"),
       TScalar("Null"), TList(TScalar("Int")), TList(TScalar("String")),
       TScalar("BigInt") >>
ArmChoices == SeqsUpTo(1..Len(ArmPool), MaxArms) \ {<<>>}
Front(xs) == SubSeq(xs, 1, Len(xs) - 1)
Last(xs) == xs[Len(xs)]
RECURSIVE UnionField(_)
UnionField(arms) ==
    IF Len(arms) = 1 THEN input_field("arg", << ArmPool[arms[1]] >>)
    ELSE IF ArmPool[Last(arms)] = TScalar("Null")
    THEN InputField_nullable(UnionField(Front(arms)))
    ELSE add_type(UnionField(Front(arms)), ArmPool[Last(arms)])

ValuePool ==
    << Five,
       NumberValue(Literal(FALSE, <<1, 5>>, <<5>>)),
       NumberValue(Literal(FALSE, <<1>> \o Zeros(20), <<>>)),
       StringValue("x"),
       StringValue("2020-01-01T00:00:00Z"),
       BooleanValue(TRUE),
       NullValue,
       ListValue(<< Five >>),
       ListValue(<< StringValue("x") >>),
       NumberValue(Literal(FALSE, I64MaxDigits, <<>>)),
       NumberValue(Literal(FALSE, I64MinDigits, <<>>)),
       NumberValue(Literal(TRUE, I64MinDigits, <<>>)),
       NumberValue(Literal(TRUE, <<9, 2, 2, 3, 3, 7, 2, 0, 3, 6, 8, 5, 4, 7, 7, 5, 8, 0, 9>>, <<>>)) >>
(* the constrained input objects and the raw objects checked one against *)
(* the other: three optional fields, a minimum and a maximum of fields    *)
(* that may each be absent, and a subset of fields the constraint names   *)
MaxMin == 2
MaxMax == 3
ConstrainedFieldNames == << "a", "b", "c" >>
MinChoices == {None} \cup { Some(i) : i \in 0..MaxMin }
MaxChoices == {None} \cup { Some(i) : i \in 1..MaxMax }
SubsetChoices == { None, Some(<< "a" >>), Some(<< "a", "b" >>) }
BoundsInOrder(min, max) == (min.some /\ max.some) => Unwrapped(min) <= Unwrapped(max)
ConstrainedObject(min, max, subset) ==
    LET plain == init_input_object_type(new_prisma(<<"Constrained">>))
        with_max == IF max.some THEN set_max_fields(plain, Unwrapped(max)) ELSE plain
        with_min == IF min.some THEN set_min_fields(with_max, Unwrapped(min)) ELSE with_max
        with_subset == IF subset.some
                       THEN apply_constraints_on_fields(with_min, Unwrapped(subset))
                       ELSE with_min
    IN InputObjectType_set_fields(with_subset,
           [i \in 1..Len(ConstrainedFieldNames) |->
               optional(input_field(ConstrainedFieldNames[i], << TScalar("Int") >>))])
KeyChoices ==
    { ks \in SeqsUpTo(1..Len(ConstrainedFieldNames), Len(ConstrainedFieldNames)) :
        \A i, j \in 1..Len(ks) : ks[i] = ks[j] => i = j }
RawObject(ks) == [i \in 1..Len(ks) |-> Pair(ConstrainedFieldNames[ks[i]], Five)]

(* the documents that look one record up by a unique criterion: the      *)
(* where argument is an object of up to four distinct keys, two of them   *)
(* unique fields, one a field that is not unique and one the operator AND *)
UniqueWhereKeys ==
    << Pair("id", Five), Pair("email", StringValue("x")), Pair("name", StringValue("x")),
       Pair("AND", ObjectValue(<< Pair("id", Five) >>)) >>
UniqueWhereChoices ==
    { ks \in SeqsUpTo(1..Len(UniqueWhereKeys), Len(UniqueWhereKeys)) :
        \A i, j \in 1..Len(ks) : ks[i] = ks[j] => i = j }
UniqueWhereDocument(model, ks) ==
    << Selection("findUnique" \o model,
                 << Pair("where", ObjectValue([i \in 1..Len(ks) |-> UniqueWhereKeys[ks[i]]])) >>,
                 << Selection("id", <<>>, <<>>) >>) >>

(* the documents with branches side by side: a lookup by a unique        *)
(* criterion, with or without an argument that is not declared, and with  *)
(* or without a second root field                                         *)
ExtraArguments == << <<>>, << Pair("bogus", NullValue) >> >>
SiblingSelections ==
    << <<>>,
       << Selection("nope", <<>>, <<>>) >>,
       << Selection("findManyUser", << Pair("where", Five) >>,
                    << Selection("id", <<>>, <<>>) >>) >> >>
BranchDocument(ks, extra, sibling) ==
    << Selection("findUniqueUser",
                 << Pair("where", ObjectValue([i \in 1..Len(ks) |-> UniqueWhereKeys[ks[i]]])) >>
                     \o ExtraArguments[extra],
                 << Selection("id", <<>>, <<>>) >>) >>
    \o SiblingSelections[sibling]

(* the documents of the round trip: one or two root fields, each with a   *)
(* where argument or none; fits tells when the selection matches the       *)
(* schema: always, with the extended unique criteria only, or never        *)
Fitting(fits, selection) == [fits |-> fits, selection |-> selection]
Leaf == << Selection("id", <<>>, <<>>) >>
Where(pairs) == << Pair("where", ObjectValue(pairs)) >>
UniqueSelections ==
    << Fitting("always", Selection("findUniqueUser", Where(<< Pair("id", Five) >>), Leaf)),
       Fitting("always", Selection("findUniqueUser",
                                   Where(<< Pair("email", StringValue("x")) >>), Leaf)),
       Fitting("extended", Selection("findUniqueUser",
                                     Where(<< Pair("id", Five), Pair("name", StringValue("x")) >>),
                                     Leaf)),
       Fitting("extended", Selection("findUniqueUser",
                                     Where(<< Pair("id", Five),
                                              Pair("NOT", ObjectValue(<< Pair("id", Five) >>)) >>),
                                     Leaf)),
       Fitting("never", Selection("findUniqueUser", Where(<<>>), Leaf)) >>
ManySelections ==
    << Fitting("always", Selection("findManyUser", <<>>, Leaf)),
       Fitting("always", Selection("findManyUser", Where(<<>>), Leaf)),
       Fitting("always", Selection("findManyUser", Where(<< Pair("name", StringValue("x")) >>),
                                   Leaf)),
       Fitting("always", Selection("findManyUser",
                                   Where(<< Pair("AND", ListValue(<<
                                               ObjectValue(<< Pair("id", Five) >>),
                                               ObjectValue(<< Pair("email", StringValue("x")),
                                                              Pair("name", StringValue("x")) >>) >>)) >>),
                                   Leaf)),
       Fitting("always", Selection("findManyUser",
                                   Where(<< Pair("NOT", ObjectValue(<< Pair("id", Five) >>)),
                                            Pair("OR", ListValue(<<>>)) >>),
                                   Leaf)),
       Fitting("never", Selection("findManyUser",
                                  Where(<< Pair("id", NumberValue(Literal(FALSE, <<1>> \o Zeros(20),
                                                                          <<>>))) >>),
                                  Leaf)) >>
RoundTripChoices ==
    { <<u, m>> : u \in 0..Len(UniqueSelections), m \in 0..Len(ManySelections) } \ { <<0, 0>> }
RoundTripSelections(c) ==
    (IF c[1] = 0 THEN <<>> ELSE << UniqueSelections[c[1]] >>)
    \o (IF c[2] = 0 THEN <<>> ELSE << ManySelections[c[2]] >>)
RoundTripDocument(c) ==
    [i \in 1..Len(RoundTripSelections(c)) |-> RoundTripSelections(c)[i].selection]

SubjectSelectionPath == <<"findManyA">>
SubjectArgumentPath == <<"arg">>

OrderIdle == order_by = <<>>

ValidateIdle ==
    /\ document = <<>>
    /\ vpc = "idle"
    /\ errors = <<>>
    /\ parsed = None
    /\ known_error = None
    /\ subject = None

(* the document is validated against the root type of the query operation *)
ValidateQuery ==
    /\ vpc = "idle"
    /\ LET result == parse_object(document, ObjectTypeOf(TObject(query_object_type)), <<>>)
       IN /\ errors' = result.errors
          /\ parsed' = result.parsed
    /\ vpc' = "validated"
    /\ UNCHANGED <<document, subject, known_error, notValidate>>

(* one raw value is parsed against the type union of an input field *)
ParseValue ==
    /\ vpc = "idle"
    /\ subject.some
    /\ LET result == parse_input_value(Unwrapped(subject).value,
                                       Unwrapped(subject).schema_input_field,
                                       SubjectSelectionPath, SubjectArgumentPath)
       IN /\ errors' = result.errors
          /\ parsed' = result.parsed
    /\ vpc' = "validated"
    /\ UNCHANGED <<document, subject, known_error, notValidate>>

(* one raw object is parsed against an input object type *)
ParseObject ==
    /\ vpc = "idle"
    /\ subject.some
    /\ LET result == parse_input_object(Unwrapped(subject).pairs,
                                        Unwrapped(subject).schema_object,
                                        SubjectSelectionPath, SubjectArgumentPath)
       IN /\ errors' = result.errors
          /\ parsed' = result.parsed
    /\ vpc' = "validated"
    /\ UNCHANGED <<document, subject, known_error, notValidate>>

(* the WhereUniqueInput of a model is built and its fields are read *)
BuildWhereUnique ==
    /\ vpc = "idle"
    /\ subject.some
    /\ subject' = Some([model |-> Unwrapped(subject).model,
                        schema_object |->
                            InputObjectTypeOf(InputType_object(
                                where_unique_object_type(Unwrapped(subject).model)))])
    /\ vpc' = "built"
    /\ UNCHANGED <<document, errors, parsed, known_error, notValidate>>

InitCell == CellIdle /\ ConcIdle /\ BuildIdle /\ IndexIdle /\ RenderIdle /\ OrderIdle /\ ValidateIdle

NextCell ==
    \/ \E fs \in FieldLists : SetFields(fs)
    \/ GetFields
    \/ \E n \in FieldNames : FindField(n)
    \/ \E f \in CellFieldUniverse : AddField(f)

SpecCell == InitCell /\ [][NextCell]_vars

NextConc ==
    \/ \E t \in Threads, fs \in ConcLists : SetBegin(t, fs)
    \/ \E t \in Threads : SetWrite(t)
    \/ \E t \in Threads : SetPublish(t)
    \/ \E t \in Threads : SetLost(t)
    \/ \E t \in Threads : ThreadGetFields(t)
    \/ \E t \in Threads, n \in FieldNames : ThreadFindField(t, n)

SpecConc == InitCell /\ [][NextConc]_vars

InitBuild ==
    /\ CellIdle /\ ConcIdle /\ IndexIdle /\ RenderIdle /\ OrderIdle /\ ValidateIdle
    /\ dm \in DataModels /\ PlainConfig /\ BuildStart

NextBuild ==
    \/ \E c \in TopRequests(dm) : Request(c)
    \/ ReturnCached
    \/ CacheInputType
    \/ ConstructLazy
    \/ CallNested
    \/ SetFieldsDb
    \/ Return

SpecBuild == InitBuild /\ [][NextBuild]_vars

InitIndex ==
    /\ CellIdle /\ ConcIdle /\ BuildStart /\ IndexIdle /\ RenderIdle /\ OrderIdle /\ ValidateIdle
    /\ dm \in DataModels
    /\ capabilities \in CapabilitySets
    /\ preview_features = {}
    /\ enable_raw_queries \in BOOLEAN

NextIndex ==
    \/ QuerySchema_new
    \/ \E n \in ModelNames, tag \in QueryTags : FindQueryField(n, tag)
    \/ \E n \in ModelNames, tag \in QueryTags : FindMutationField(n, tag)

SpecIndex == InitIndex /\ [][NextIndex]_vars

FeatureSets == { {}, {"ExtendedWhereUnique", "FieldReference"} }

InitRender ==
    /\ CellIdle /\ ConcIdle /\ BuildStart /\ IndexIdle /\ RenderIdle /\ OrderIdle /\ ValidateIdle
    /\ dm \in DataModels
    /\ capabilities \in CapabilitySets
    /\ preview_features \in FeatureSets
    /\ enable_raw_queries \in BOOLEAN

NextRender ==
    \/ DmmfSchemaRenderer_render
    \/ RenderSkip
    \/ RenderForce
    \/ ReturnCached
    \/ CacheInputType
    \/ ConstructLazy
    \/ CallNested
    \/ SetFieldsDb
    \/ Return
    \/ RenderRead
    \/ RenderFields
    \/ RenderDone

(* the renderer is one sequential computation: it keeps taking steps *)
SpecRender == InitRender /\ [][NextRender]_vars /\ WF_vars(NextRender)

InitValidate ==
    /\ CellIdle /\ ConcIdle /\ BuildStart /\ IndexIdle /\ RenderIdle /\ OrderIdle
    /\ dm = "cycle2" /\ PlainConfig
    /\ document \in Documents
    /\ vpc = "idle"
    /\ errors = <<>>
    /\ parsed = None
    /\ known_error = None
    /\ subject = None

NextValidate == ValidateQuery

SpecValidate == InitValidate /\ [][NextValidate]_vars

InitArguments ==
    /\ CellIdle /\ ConcIdle /\ BuildStart /\ IndexIdle /\ RenderIdle /\ OrderIdle
    /\ dm = "cycle2" /\ PlainConfig
    /\ \E n \in ArgumentRootNames, choice \in ArgumentChoices :
          document = ArgumentDocument(n, choice)
    /\ vpc = "idle"
    /\ errors = <<>>
    /\ parsed = None
    /\ known_error = None
    /\ subject = None

SpecArguments == InitArguments /\ [][NextValidate]_vars

InitUniqueWhere ==
    /\ CellIdle /\ ConcIdle /\ BuildStart /\ IndexIdle /\ RenderIdle /\ OrderIdle
    /\ dm \in {"cycle2", "user"}
    /\ capabilities = {}
    /\ preview_features \in FeatureSets
    /\ enable_raw_queries = FALSE
    /\ \E ks \in UniqueWhereChoices : document = UniqueWhereDocument(Models(dm)[1], ks)
    /\ vpc = "idle"
    /\ errors = <<>>
    /\ parsed = None
    /\ known_error = None
    /\ subject = None

SpecUniqueWhere == InitUniqueWhere /\ [][NextValidate]_vars

InitBranches ==
    /\ CellIdle /\ ConcIdle /\ BuildStart /\ IndexIdle /\ RenderIdle /\ OrderIdle
    /\ dm = "user"
    /\ capabilities = {}
    /\ preview_features \in FeatureSets
    /\ enable_raw_queries = FALSE
    /\ \E ks \in UniqueWhereChoices, extra \in 1..Len(ExtraArguments),
          sibling \in 1..Len(SiblingSelections) :
          document = BranchDocument(ks, extra, sibling)
    /\ vpc = "idle"
    /\ errors = <<>>
    /\ parsed = None
    /\ known_error = None
    /\ subject = None

SpecBranches == InitBranches /\ [][NextValidate]_vars

InitRoundTrip ==
    /\ CellIdle /\ ConcIdle /\ BuildStart /\ IndexIdle /\ RenderIdle /\ OrderIdle
    /\ dm = "user"
    /\ capabilities = {}
    /\ preview_features \in FeatureSets
    /\ enable_raw_queries = FALSE
    /\ \E c \in RoundTripChoices : document = RoundTripDocument(c)
    /\ vpc = "idle"
    /\ errors = <<>>
    /\ parsed = None
    /\ known_error = None
    /\ subject = None

SpecRoundTrip == InitRoundTrip /\ [][NextValidate]_vars

InitWhereUnique ==
    /\ CellIdle /\ ConcIdle /\ BuildStart /\ IndexIdle /\ RenderIdle /\ OrderIdle
    /\ dm \in DataModels \cup {"user", "compound"}
    /\ capabilities \in CapabilitySets
    /\ preview_features \in SUBSET {"ExtendedWhereUnique", "FieldReference"}
    /\ enable_raw_queries = FALSE
    /\ document = <<>>
    /\ vpc = "idle"
    /\ errors = <<>>
    /\ parsed = None
    /\ known_error = None
    /\ \E i \in 1..Len(Models(dm)) : subject = Some([model |-> Models(dm)[i]])

NextWhereUnique == BuildWhereUnique

SpecWhereUnique == InitWhereUnique /\ [][NextWhereUnique]_vars

InitValues ==
    /\ CellIdle /\ ConcIdle /\ BuildStart /\ IndexIdle /\ RenderIdle /\ OrderIdle
    /\ dm = "cycle2" /\ PlainConfig
    /\ document = <<>>
    /\ vpc = "idle"
    /\ errors = <<>>
    /\ parsed = None
    /\ known_error = None
    /\ \E arms \in ArmChoices, v \in 1..Len(ValuePool) :
          subject = Some([value |-> ValuePool[v], schema_input_field |-> UnionField(arms)])

NextValues == ParseValue

SpecValues == InitValues /\ [][NextValues]_vars

InitObjects ==
    /\ CellIdle /\ ConcIdle /\ BuildStart /\ IndexIdle /\ RenderIdle /\ OrderIdle
    /\ dm = "cycle2" /\ PlainConfig
    /\ document = <<>>
    /\ vpc = "idle"
    /\ errors = <<>>
    /\ parsed = None
    /\ known_error = None
    /\ \E min \in MinChoices, max \in MaxChoices, subset \in SubsetChoices, ks \in KeyChoices :
          /\ BoundsInOrder(min, max)
          /\ subject = Some([pairs |-> RawObject(ks),
                             schema_object |-> ConstrainedObject(min, max, subset)])

NextObjects == ParseObject

SpecObjects == InitObjects /\ [][NextObjects]_vars

-----------------------------------------------------------------------------
(* C4 as stated: once set_fields has assigned the list, every get_fields    *)
(* returns that same list, whatever operation came in between.              *)
C4_SameListForEver ==
    (res.op = "get_fields" /\ res.outcome = "ok") =>
        (firstSet.some /\ res.val = Unwrapped(firstSet))

(* C4 amended: set_fields assigns the list at most once (a second call is   *)
(* fatal and leaves the list as it is) and no read changes it; get_fields   *)
(* returns the first assigned list followed by the fields add_field pushed. *)
C4_AssignedOnceThenOnlyAppended ==
    /\ obj.fields.some <=> firstSet.some
    /\ obj.fields.some => Unwrapped(obj.fields) = Unwrapped(firstSet) \o added
    /\ (res.op = "get_fields" /\ res.outcome = "ok") =>
           res.val = Unwrapped(firstSet) \o added
    /\ (res.op = "set_fields" /\ ~res.unset) => res.outcome = "panic"

C4_Witness ==
    /\ res.op = "get_fields"
    /\ res.outcome = "ok"
    /\ added # <<>>
    /\ Unwrapped(firstSet) # <<>>
    /\ res.val = Unwrapped(firstSet) \o added

(* C5: get_fields, find_field and add_field on a type whose field list was  *)
(* never assigned end in the fatal outcome, with no list and no value.      *)
C5_UnsetReadIsFatal ==
    (res.unset /\ res.op \in {"get_fields", "find_field", "add_field"}) =>
        (res.outcome = "panic" /\ res.val = <<>>)

C5_Witness ==
    /\ res.unset
    /\ res.op = "find_field"
    /\ res.outcome = "panic"

(* C6: every read by any thread that returns a value returns it from the    *)
(* complete list of the one assignment that won; a read never sees a        *)
(* partly written list and two readers never see different lists.           *)
C6_ReadersSeeTheCompleteList ==
    \A t \in Threads :
        /\ (obs[t].op = "get_fields" /\ obs[t].outcome = "ok") =>
               (won.some /\ obs[t].val = Unwrapped(won))
        /\ (obs[t].op = "find_field" /\ obs[t].outcome = "ok") =>
               (won.some /\ obs[t].val = FindByName(Unwrapped(won), obs[t].arg))

C6_Witness ==
    \E t1, t2, t3 \in Threads :
        /\ t1 # t2
        /\ obs[t1].op = "get_fields" /\ obs[t1].outcome = "ok"
        /\ Len(obs[t1].val) > 1
        /\ obs[t2].op = "find_field" /\ obs[t2].outcome = "ok" /\ obs[t2].val.some
        /\ obs[t3].op = "set_fields" /\ obs[t3].outcome = "panic"

(* C1: the registry never holds two objects under one identifier, the map   *)
(* has one id per identifier, and every request for an identifier returned  *)
(* the same id, that of the object registered under it.                     *)
C1_OneInstancePerIdentifier ==
    /\ \A i, j \in 1..Len(db) : db[i].identifier = db[j].identifier => i = j
    /\ \A e1, e2 \in cache : e1.ident = e2.ident => e1.id = e2.id
    /\ \A e \in cache : e.id \in 1..Len(db) /\ db[e.id].identifier = e.ident
    /\ \A s1, s2 \in served : s1.ident = s2.ident => s1.id = s2.id
    /\ \A s1 \in served : return_cached_input(cache, s1.ident) = Some(s1.id)

C1_Witness ==
    /\ stack = <<>>
    /\ Len(db) >= 3
    /\ \E s1, s2 \in served :
          /\ s1.ident = s2.ident /\ s1.id = s2.id
          /\ ~s1.hit /\ s2.hit /\ ~s2.placeholder
          /\ s1.ident.name[1] = "ToManyRelationFilterInput"

(* C2: a constructor in the middle of its nested requests has its           *)
(* identifier registered under its own id, and no identifier's field body   *)
(* is started a second time.                                                *)
C2_PlaceholderBeforeNestedRequests ==
    /\ bodyRuns.again = {}
    /\ \A k \in 1..(Len(stack) - 1) :
          IdentOf(stack[k].fn, stack[k].a) # NoIdent =>
              /\ stack[k].id > 0
              /\ return_cached_input(cache, IdentOf(stack[k].fn, stack[k].a)) = Some(stack[k].id)

C2_Witness ==
    /\ stack = <<>>
    /\ \E s \in served :
          /\ s.hit /\ s.placeholder
          /\ s.ident \in bodyRuns.once
          /\ db[s.id].fields # <<>>

BaseOf(t) == [t EXCEPT !.depth = 0]

RefsOfInputFields(fields) ==
    { Ref(IF ty.k = "Enum" THEN "enum" ELSE "in", BaseOf(ty)) :
        ty \in { t \in UNION { SeqToSet(fields[i].field_types) : i \in 1..Len(fields) } :
                   t.k # "Scalar" } }

Successors(item) ==
    IF item.loc = "enum" THEN {}
    ELSE IF item.loc = "out"
    THEN LET fs == OutputFields(item.t.closure)
         IN { Ref(IF fs[i].field_type.k = "Enum" THEN "enum" ELSE "out", BaseOf(fs[i].field_type)) :
                i \in { j \in 1..Len(fs) : fs[j].field_type.k # "Scalar" } }
            \cup UNION { RefsOfInputFields(fs[i].arguments) : i \in 1..Len(fs) }
    ELSE RefsOfInputFields(IF NeedsRegistry(item) THEN FieldsFromCache(item.t.closure)
                           ELSE InputFieldsAtHand(item.t))

RECURSIVE ReachableFrom(_)
ReachableFrom(S) ==
    LET N == S \cup UNION { Successors(i) : i \in S }
    IN IF N = S THEN S ELSE ReachableFrom(N)

Roots == { Ref("out", TObject(query_object_type)), Ref("out", TObject(mutation_object_type)) }

(* C3: on every data model, the cyclic ones included, every evaluation of   *)
(* a field closure started while the schema is walked from the Query and    *)
(* Mutation roots returns, the walk comes to its end, and neither the       *)
(* arena nor the call stack ever fills the room given to them.              *)
C3_BuildTerminatesOnCycles ==
    /\ [](Len(stack) < MaxStack /\ Len(db) < MaxTypes)
    /\ ((stack # <<>>) ~> (stack = <<>>))
    /\ <>[](rpc = "done" /\ stack = <<>> /\ next_pass = <<>>)

C3_Witness ==
    /\ dm = "self"
    /\ rpc = "done"
    /\ KeyOf(Ref("in", TObject(where_object_type("A")))) \in rendered
    /\ \E e \in cache : e.ident = to_one_ident("A", FALSE)
    /\ \E e \in cache : e.ident = to_many_ident("A")

QueryRoot == ObjectTypeOf(TObject(query_object_type))
FieldsNamed(o, name) == { f \in SeqToSet(Unwrapped(o.fields)) : f.name = name }
ArgumentsFit(f, s) == parse_arguments(f, s, <<s.name>>).errors = <<>>

RECURSIVE Visited(_, _, _)
Visited(selections, o, path) ==
    UNION { LET s == selections[i]
                fs == FieldsNamed(o, s.name)
            IN { [selection |-> s, among |-> selections, enclosing |-> o,
                  path |-> Append(path, s.name)] }
               \cup
               IF /\ fs # {}
                  /\ \A f \in fs : f.field_type.k = "Object" /\ ArgumentsFit(f, s)
                  /\ s.nested # <<>>
               THEN Visited(s.nested, ObjectTypeOf((CHOOSE f \in fs : TRUE).field_type),
                            Append(path, s.name))
               ELSE {}
          : i \in 1..Len(selections) }

IsPrefix(p, q) == Len(p) <= Len(q) /\ SubSeq(q, 1, Len(p)) = p
ErrorsUnder(q, p) ==
    LET under(e) == IsPrefix(p, e.selection_path) IN SelectSeq(q, under)

(* the selection set without the selection at the given path *)
RECURSIVE RemoveAt(_, _)
RemoveAt(selections, p) ==
    LET other(s) == s.name # p[1]
    IN IF Len(p) = 1 THEN SelectSeq(selections, other)
       ELSE [i \in 1..Len(selections) |->
                IF selections[i].name = p[1]
                THEN [selections[i] EXCEPT !.nested = RemoveAt(@, Tail(p))]
                ELSE selections[i]]

(* C9: a selected name that is not a field of the enclosing output type     *)
(* gives exactly one UnknownSelectionField error at the selection's path,   *)
(* whose message names the field and the enclosing type and whose meta      *)
(* describes that type; a name that is a field of the enclosing type gives  *)
(* no UnknownSelectionField, and no such error arises anywhere else.        *)
C9_UnknownSelectionFieldIffNotInFieldSet ==
    vpc = "validated" =>
        /\ \A v \in Visited(document, QueryRoot, <<>>) :
              LET raised == { i \in 1..Len(errors) :
                                /\ errors[i].kind = "UnknownSelectionField"
                                /\ errors[i].selection_path = v.path }
                  type_name == ObjectType_name(v.enclosing)
              IN IF FieldsNamed(v.enclosing, v.selection.name) = {}
                 THEN /\ Cardinality(raised) = 1
                      /\ \A i \in raised :
                            /\ errors[i].message =
                                  "Field '" \o v.selection.name
                                     \o "' not found in enclosing type '" \o type_name \o "'"
                            /\ errors[i].meta.some
                            /\ Unwrapped(errors[i].meta).outputType.name = type_name
                            /\ \A k \in 1..Len(Unwrapped(errors[i].meta).outputType.fields) :
                                  Unwrapped(errors[i].meta).outputType.fields[k].name
                                      # v.selection.name
                 ELSE raised = {}
        /\ \A i \in 1..Len(errors) :
              errors[i].kind = "UnknownSelectionField" =>
                  \E v \in Visited(document, QueryRoot, <<>>) :
                      v.path = errors[i].selection_path

C9_Witness ==
    /\ vpc = "validated"
    /\ document[1].name = "findManyA"
    /\ Len(document[1].nested) = 2
    /\ document[1].nested[1].name = "id"
    /\ document[1].nested[2].name = "b"
    /\ \E i \in 1..Len(errors) :
          /\ errors[i].kind = "UnknownSelectionField"
          /\ errors[i].selection_path = <<"findManyA", "b", "b">>
          /\ Unwrapped(errors[i].meta).outputType.name = "B"
    /\ \A i \in 1..Len(errors) : errors[i].selection_path # <<"findManyA", "id">>

(* C10: a selection set under a field of scalar type gives one              *)
(* SelectionSetOnScalar error naming the field, at the field's path, and    *)
(* nothing for the selections below it; each sibling of the field gives     *)
(* the errors it gives in the document without the offending field.         *)
C10_SelectionSetOnScalarLeavesSiblingsAlone ==
    vpc = "validated" =>
        \A v \in Visited(document, QueryRoot, <<>>) :
            LET fs == FieldsNamed(v.enclosing, v.selection.name)
                parent == SubSeq(v.path, 1, Len(v.path) - 1)
                without == parse_object(RemoveAt(document, v.path), QueryRoot, <<>>).errors
            IN (/\ fs # {}
                /\ \A f \in fs : f.field_type.k # "Object"
                /\ v.selection.nested # <<>>)
               =>
               /\ Len(ErrorsUnder(errors, v.path)) = 1
               /\ ErrorsUnder(errors, v.path)[1].kind = "SelectionSetOnScalar"
               /\ ErrorsUnder(errors, v.path)[1].selection_path = v.path
               /\ ErrorsUnder(errors, v.path)[1].message =
                     "Cannot select over scalar field '" \o v.selection.name \o "'"
               /\ \A j \in 1..Len(v.among) :
                     v.among[j] # v.selection =>
                         ErrorsUnder(errors, Append(parent, v.among[j].name))
                             = ErrorsUnder(without, Append(parent, v.among[j].name))

C10_Witness ==
    /\ vpc = "validated"
    /\ document[1].name = "findManyA"
    /\ Len(document[1].nested) = 2
    /\ document[1].nested[1].name = "id"
    /\ document[1].nested[1].nested # <<>>
    /\ document[1].nested[1].nested[1].name = "nope"
    /\ document[1].nested[2].name = "nope"
    /\ Len(errors) = 2
    /\ errors[1].kind = "SelectionSetOnScalar"
    /\ errors[1].selection_path = <<"findManyA", "id">>
    /\ errors[2].kind = "UnknownSelectionField"
    /\ errors[2].selection_path = <<"findManyA", "nope">>

(* The provided arguments a field's declared arguments consume: the first  *)
(* of each declared name.                                                  *)
RootSelection == document[1]
RootFields == FieldsNamed(QueryRoot, RootSelection.name)
RootField == CHOOSE f \in RootFields : TRUE
IsDeclared(f, name) == \E i \in 1..Len(f.arguments) : f.arguments[i].name = name
IsConsumed(f, arguments, j) ==
    /\ IsDeclared(f, arguments[j].name)
    /\ \A i \in 1..(j - 1) : arguments[i].name # arguments[j].name
IsUnknownArgument(e) == e.kind = "UnkownArgument"

(* C11: of the provided arguments of a field, the first of every declared  *)
(* name is consumed and all the others stay in the pool; the               *)
(* UnknownArgument errors are, in the order provided, exactly the          *)
(* arguments that stayed in the pool, so a consumed argument never gives   *)
(* one, and in a parsed field no declared argument took two values.        *)
C11_LeftoverArgumentsAreUnknown ==
    (vpc = "validated" /\ RootFields # {}) =>
        LET given == RootSelection.arguments
            left == SelectSeq([j \in 1..Len(given) |-> j],
                              LAMBDA j : ~IsConsumed(RootField, given, j))
            unknown == SelectSeq(errors, IsUnknownArgument)
        IN /\ Len(unknown) = Len(left)
           /\ \A i \in 1..Len(left) :
                 /\ unknown[i].selection_path = <<RootSelection.name>>
                 /\ Unwrapped(unknown[i].meta).argumentPath = <<given[left[i]].name>>
           /\ parsed.some =>
                 LET taken == Unwrapped(parsed).fields[1].parsed_field.arguments
                 IN /\ left = <<>>
                    /\ Len(taken) = Len(given)
                    /\ \A i, j \in 1..Len(taken) : taken[i].name = taken[j].name => i = j

C11_Witness ==
    /\ vpc = "validated"
    /\ RootSelection.name = "groupByA"
    /\ Len(RootSelection.arguments) = 3
    /\ RootSelection.arguments[1].name = "where"
    /\ RootSelection.arguments[2].name = "where"
    /\ RootSelection.arguments[3].name = "having"
    /\ Len(errors) = 1
    /\ errors[1].kind = "UnkownArgument"
    /\ Unwrapped(errors[1].meta).argumentPath = <<"where">>

SubjectValue == Unwrapped(subject).value
SubjectArms == Unwrapped(subject).schema_input_field.field_types
IsValueSubject == vpc = "validated" /\ subject.some /\ "value" \in DOMAIN Unwrapped(subject)
CompatibleArms == { j \in 1..Len(SubjectArms) : ArmOutcome(SubjectValue, SubjectArms[j]) = "match" }
FirstCompatible == CHOOSE j \in CompatibleArms : \A m \in CompatibleArms : j <= m
ResultOfArm(j) ==
    parse_matched(SubjectValue, Unwrapped(subject).schema_input_field, SubjectArms[j],
                  SubjectSelectionPath, SubjectArgumentPath)

ArmPoolNames ==
    << "Int", "Float", "String", "DateTime", "Null", "Int[]", "String[]", "BigInt" >>
NameOfArm(t) == ArmPoolNames[CHOOSE i \in 1..Len(ArmPool) : ArmPool[i] = t]
SubjectArmNames == [j \in 1..Len(SubjectArms) |-> NameOfArm(SubjectArms[j])]
FitsNoArm == \A j \in 1..Len(SubjectArms) : ArmOutcome(SubjectValue, SubjectArms[j]) = "no"

(* C13: a value whose shape fits none of the arms of the declared union    *)
(* gives one InvalidArgumentType and no parsed value; the type names of    *)
(* the error are the names of the declared arms, every one of them and in  *)
(* the order the arms were declared, in the payload and in the message.    *)
C13_InvalidArgumentTypeListsTheArms ==
    (IsValueSubject /\ FitsNoArm) =>
        /\ parsed = None
        /\ Len(errors) = 1
        /\ errors[1].kind = "InvalidArgumentType"
        /\ errors[1].selection_path = SubjectSelectionPath
        /\ Unwrapped(errors[1].meta).argumentPath = SubjectArgumentPath
        /\ Unwrapped(errors[1].meta).argument.name = "arg"
        /\ Unwrapped(errors[1].meta).argument.type_names = SubjectArmNames
        /\ errors[1].message =
              "Invalid argument type. 'arg' should be of any of the following types: '"
                  \o join_with(SubjectArmNames, ", ") \o "'"

C13_Witness ==
    /\ IsValueSubject
    /\ SubjectValue.k = "Boolean" /\ SubjectValue.v = TRUE
    /\ SubjectArms = << TList(TScalar("String")), TScalar("Int"), TScalar("Null") >>
    /\ Len(errors) = 1
    /\ Unwrapped(errors[1].meta).argument.type_names = << "String[]", "Int", "Null" >>

IsObjectSubject == vpc = "validated" /\ subject.some /\ "pairs" \in DOMAIN Unwrapped(subject)
SubjectConstraints == Unwrapped(subject).schema_object.constraints
Given == Len(Unwrapped(subject).pairs)
Observed == counted_fields(Unwrapped(subject).pairs, SubjectConstraints)
BelowMin == SubjectConstraints.min_num_fields.some
                /\ Observed < Unwrapped(SubjectConstraints.min_num_fields)
AboveMax == SubjectConstraints.max_num_fields.some
                /\ Observed > Unwrapped(SubjectConstraints.max_num_fields)
ConstraintText(min, max, subset, got) ==
    InputTypeConstraints_fmt([min |-> min, max |-> max, fields |-> subset, got |-> got])
(* the text of the error gives away the four values: no other minimum,    *)
(* maximum, subset and count have the same text                           *)
TextEmbedsConstraint(text) ==
    \A min \in MinChoices, max \in MaxChoices, subset \in SubsetChoices,
       got \in 0..Len(ConstrainedFieldNames) :
        (text = ConstraintText(min, max, subset, got)) <=>
            /\ min = SubjectConstraints.min_num_fields
            /\ max = SubjectConstraints.max_num_fields
            /\ subset = SubjectConstraints.fields
            /\ got = Observed

IsExtended == "ExtendedWhereUnique" \in preview_features
WhereValue == RootSelection.arguments[1].value
UniqueNames == IF dm = "user" THEN << "id", "email" >> ELSE << "id" >>

(* C15: with the extended unique criteria switched on, a unique criterion  *)
(* given as an empty object is refused for its number of fields: the one   *)
(* error is SomeFieldsMissing at the where argument, and it cites the      *)
(* unique fields of the model, all of them and no other field, and a count *)
(* of 0.                                                                   *)
C15_EmptyUniqueWhereCitesTheUniqueFields ==
    (vpc = "validated" /\ IsExtended /\ RootSelection.name = "findUnique" \o Models(dm)[1]
        /\ WhereValue = ObjectValue(<<>>)) =>
        /\ parsed = None
        /\ Len(errors) = 1
        /\ errors[1].kind = "SomeFieldsMissing"
        /\ errors[1].selection_path = <<RootSelection.name>>
        /\ Unwrapped(errors[1].meta).argumentPath = <<"where">>
        /\ errors[1].message =
              "Some fields are missing: Expected a minimum of 1 fields of ("
                  \o join_with(UniqueNames, ", ") \o ") to be present, got 0."

C15_Witness ==
    /\ vpc = "validated" /\ IsExtended /\ dm = "user"
    /\ WhereValue = ObjectValue(<<>>)
    /\ Len(errors) = 1
    /\ errors[1].message =
          "Some fields are missing: Expected a minimum of 1 fields of (id, email) to be present, got 0."

(* the numbers of the pool beyond the 64-bit range: 10^20, 2^63 and        *)
(* -(2^63 + 1); 2^63 - 1 and -2^63 are the last within it                  *)
TooLargeNumbers ==
    { Literal(FALSE, <<1>> \o Zeros(20), <<>>),
      Literal(FALSE, <<9, 2, 2, 3, 3, 7, 2, 0, 3, 6, 8, 5, 4, 7, 7, 5, 8, 0, 8>>, <<>>),
      Literal(TRUE, <<9, 2, 2, 3, 3, 7, 2, 0, 3, 6, 8, 5, 4, 7, 7, 5, 8, 0, 9>>, <<>>) }
EndsOfTheRange == { Literal(FALSE, I64MaxDigits, <<>>), Literal(TRUE, I64MinDigits, <<>>) }
IsTooLarge == SubjectValue.k = "Number" /\ SubjectValue.v \in TooLargeNumbers
IntegerArms ==
    { j \in 1..Len(SubjectArms) :
        SubjectArms[j].depth = 0 /\ SubjectArms[j].k = "Scalar"
            /\ SubjectArms[j].scalar \in {"Int", "BigInt"} }
FloatArms ==
    { j \in 1..Len(SubjectArms) :
        SubjectArms[j].depth = 0 /\ SubjectArms[j].k = "Scalar"
            /\ SubjectArms[j].scalar \in {"Float", "Decimal"} }
HasKind(kind) == \E i \in 1..Len(errors) : errors[i].kind = kind

(* C16: a number beyond the range of a 64-bit signed integer, given where  *)
(* an integer is declared, is refused as ValueTooLarge, naming the         *)
(* argument and the number, and never as InvalidArgumentType; a value      *)
(* that is not such a number never gives ValueTooLarge, the two ends of    *)
(* the range included.                                                     *)
C16_ValueTooLargeForIntegers ==
    IsValueSubject =>
        /\ (IsTooLarge /\ IntegerArms # {}) =>
              /\ ~HasKind("InvalidArgumentType")
              /\ FloatArms = {} =>
                    /\ parsed = None
                    /\ Len(errors) = 1
                    /\ errors[1].kind = "ValueTooLarge"
                    /\ errors[1].selection_path = SubjectSelectionPath
                    /\ Unwrapped(errors[1].meta).argumentPath = SubjectArgumentPath
                    /\ Unwrapped(errors[1].meta).argument =
                          ArgumentDescription("arg", <<"BigInt">>)
        /\ ~IsTooLarge => ~HasKind("ValueTooLarge")
        /\ (SubjectValue.k = "Number" /\ SubjectValue.v \in EndsOfTheRange
              /\ IntegerArms # {}) => errors = <<>>

C16_Witness ==
    /\ IsValueSubject
    /\ SubjectValue.k = "Number"
    /\ SubjectValue.v = Literal(FALSE, <<1>> \o Zeros(20), <<>>)
    /\ SubjectArms = << TScalar("Int"), TScalar("Null") >>
    /\ Len(errors) = 1
    /\ errors[1].kind = "ValueTooLarge"
    /\ errors[1].message =
          "Unable to fit float value (or large JS integer serialized in exponent notation) '100000000000000000000' into a 64 Bit signed integer for field 'arg'. If you're trying to store large integers, consider using 'BigInt'"

(* where an error lies: the field-level errors at their selection path,    *)
(* the others below it at their argument path; the error of an unknown key *)
(* carries no argument path and lies below the object-valued argument of   *)
(* its field                                                               *)
FieldLevelKinds == {"UnknownSelectionField", "SelectionSetOnScalar", "EmptySelection"}
SelectionAt(path) == CHOOSE s \in SeqToSet(document) : s.name = path[1]
ObjectArgumentAt(path) ==
    CHOOSE a \in SeqToSet(SelectionAt(path).arguments) : a.value.k = "Object"
ArgumentPosition(e) ==
    IF e.kind = "UnknownInputField"
    THEN << ObjectArgumentAt(e.selection_path).name, "?" >>
    ELSE Unwrapped(e.meta).argumentPath
Deeper(e, d) ==
    IF e.kind \in FieldLevelKinds
    THEN /\ IsPrefix(e.selection_path, d.selection_path)
         /\ (e.selection_path = d.selection_path => d.kind \notin FieldLevelKinds)
    ELSE /\ d.kind \notin FieldLevelKinds
         /\ e.selection_path = d.selection_path
         /\ IsPrefix(ArgumentPosition(e), ArgumentPosition(d))
         /\ ArgumentPosition(e) # ArgumentPosition(d)
ResultOfDocument(selections) == parse_object(selections, QueryRoot, <<>>)
IsPermutation(a, b) ==
    /\ Len(a) = Len(b)
    /\ \E p \in [1..Len(a) -> 1..Len(a)] :
          /\ \A i, j \in 1..Len(a) : p[i] = p[j] => i = j
          /\ \A i \in 1..Len(a) : a[i] = b[p[i]]
NotMissingArgument(e) ==
    ~(e.kind = "RequiredArgumentMissing" /\ Len(Unwrapped(e.meta).argumentPath) = 1)
ArgumentAlone(s, j) == << [s EXCEPT !.arguments = << s.arguments[j] >>] >>

(* C17: a branch that fails gives its first error and nothing else: there  *)
(* is a parsed result exactly when there is no error, for the document and *)
(* for each root field taken alone, and no error lies deeper in the branch *)
(* of another error; branches side by side are validated each on its own   *)
(* path: the errors of a root field are those it gives alone, and the      *)
(* errors of two arguments of a field are those each gives alone.          *)
C17_BranchEndsAtItsFirstError ==
    vpc = "validated" =>
        /\ parsed.some <=> errors = <<>>
        /\ \A i, j \in 1..Len(errors) : i # j => ~Deeper(errors[i], errors[j])
        /\ \A r \in 1..Len(document) :
              /\ ResultOfDocument(<<document[r]>>).parsed.some
                    <=> ResultOfDocument(<<document[r]>>).errors = <<>>
              /\ ErrorsUnder(errors, <<document[r].name>>)
                    = ResultOfDocument(<<document[r]>>).errors
              /\ Len(document[r].arguments) = 2 =>
                    IsPermutation(
                        SelectSeq(ResultOfDocument(<<document[r]>>).errors, NotMissingArgument),
                        SelectSeq(ResultOfDocument(ArgumentAlone(document[r], 1)).errors,
                                  NotMissingArgument)
                        \o SelectSeq(ResultOfDocument(ArgumentAlone(document[r], 2)).errors,
                                     NotMissingArgument))

C17_Witness ==
    /\ vpc = "validated" /\ ~IsExtended
    /\ Len(document) = 2
    /\ Len(WhereValue.v) = 3
    /\ Len(RootSelection.arguments) = 2
    /\ parsed = None
    /\ Len(errors) = 3
    /\ errors[1].kind = "TooManyFieldsGiven"
    /\ errors[2].kind = "UnkownArgument"
    /\ errors[3].kind = "UnknownSelectionField"

(* the errors that concern an argument or a key of an input object *)
ArgumentKinds ==
    {"InvalidArgumentType", "InvalidArgumentValue", "SomeFieldsMissing", "TooManyFieldsGiven",
     "RequiredArgumentMissing", "UnkownArgument", "UnknownInputField", "ValueTooLarge"}
VisitedPaths == { v.path : v \in Visited(document, QueryRoot, <<>>) }
IsArgumentOf(s, name) == \E i \in 1..Len(s.arguments) : s.arguments[i].name = name
CarriesArgumentPath(e) ==
    /\ e.meta.some
    /\ "argumentPath" \in DOMAIN Unwrapped(e.meta)
    /\ Unwrapped(e.meta).argumentPath # <<>>
    /\ e.kind # "RequiredArgumentMissing"
          => IsArgumentOf(SelectionAt(e.selection_path), Unwrapped(e.meta).argumentPath[1])
ErrorsCarryTheirPaths(kinds) ==
    vpc = "validated" =>
        \A i \in 1..Len(errors) :
            /\ errors[i].selection_path \in VisitedPaths
            /\ errors[i].kind \in kinds => CarriesArgumentPath(errors[i])

(* C18: every error of a document carries the names of the fields from the *)
(* root to the field it was found at, and every error about an argument or *)
(* a key of an input object (the eight kinds of ArgumentKinds) carries the *)
(* argument path of its position as well.                                  *)
C18_EveryErrorCarriesItsPaths == ErrorsCarryTheirPaths(ArgumentKinds)

(* all kinds but the one of an unknown key *)
ErrorsButUnknownKeysCarryTheirPaths ==
    ErrorsCarryTheirPaths(ArgumentKinds \ {"UnknownInputField"})

(* the raw value a parsed value is written back as: a single value by its  *)
(* variant, a list element by element, a map entry by entry                *)
RECURSIVE encode(_)
encode(value) ==
    IF value.k = "List" THEN ListValue([i \in 1..Len(value.v) |-> encode(value.v[i])])
    ELSE IF value.k = "Map"
    THEN ObjectValue([i \in 1..Len(value.v.map) |->
                         Pair(value.v.map[i].name, encode(value.v.map[i].value))])
    ELSE IF value.v.k \in {"Int", "BigInt", "Float", "Decimal"} THEN NumberValue(value.v.v)
    ELSE IF value.v.k = "Boolean" THEN BooleanValue(value.v.v)
    ELSE IF value.v.k = "Null" THEN NullValue
    ELSE IF value.v.k = "Enum" THEN [k |-> "Enum", v |-> value.v.v]
    ELSE StringValue(value.v.v)
encode_arguments(arguments) ==
    [i \in 1..Len(arguments) |-> Pair(arguments[i].name, encode(arguments[i].value))]
FitsTheSchema(c) ==
    \A i \in 1..Len(RoundTripSelections(c)) :
        \/ RoundTripSelections(c)[i].fits = "always"
        \/ RoundTripSelections(c)[i].fits = "extended" /\ IsExtended

BuiltModel == Unwrapped(subject).model
BuiltObject == Unwrapped(subject).schema_object
NamesOf(fields) == [i \in 1..Len(fields) |-> fields[i].name]
UniqueScalarNames == NamesOf(SelectSeq(ModelFields(dm, BuiltModel), is_unique))
CompoundNames ==
    IF dm = "compound" /\ BuiltModel = "Team" THEN << "first_last" >>
    ELSE IF dm = "compound" /\ BuiltModel = "Member" THEN << "teamId_userId" >>
    ELSE <<>>
CriterionNames == UniqueScalarNames \o CompoundNames
OtherFieldNames == NamesOf(SelectSeq(ModelFields(dm, BuiltModel), is_not_unique))

(* C20: the feature flag alone selects the constraint and the fields of a  *)
(* model's WhereUniqueInput, whatever the connector and the other          *)
(* features.  Off: exactly one field (minimum 1, maximum 1), no subset,    *)
(* and the fields are the unique scalars, the compound unique indexes and  *)
(* the compound id.  On: at least one field (minimum 1, no maximum) of the *)
(* subset of those same names, and after them the fields AND, OR, NOT and  *)
(* a filter field for every other field of the model.                      *)
C20_FlagSelectsTheUniqueCriterion ==
    (vpc = "built") =>
        /\ \A i \in 1..Len(BuiltObject.fields) : ~BuiltObject.fields[i].is_required
        /\ ~IsExtended =>
              /\ BuiltObject.constraints =
                    [min_num_fields |-> Some(1), max_num_fields |-> Some(1), fields |-> None]
              /\ NamesOf(BuiltObject.fields) = CriterionNames
        /\ IsExtended =>
              /\ BuiltObject.constraints =
                    [min_num_fields |-> Some(1), max_num_fields |-> None,
                     fields |-> Some(CriterionNames)]
              /\ NamesOf(BuiltObject.fields)
                    = CriterionNames \o << "AND", "OR", "NOT" >> \o OtherFieldNames

C20_Witness ==
    /\ vpc = "built" /\ IsExtended
    /\ dm = "compound" /\ BuiltModel = "Team"
    /\ BuiltObject.constraints.fields = Some(<< "id", "first_last" >>)
    /\ NamesOf(BuiltObject.fields) = << "id", "first_last", "AND", "OR", "NOT", "first", "last" >>

-----------------------------------------------------------------------------
(* The filter objects of a model, built through the registry: the where    *)
(* object, the scalar filter object with and without aggregates, and the   *)
(* unique criterion, for the data models that cover the scalar kinds and   *)
(* the relations.                                                          *)
FilterModels == {"numbers", "texts", "others", "self"}

FilterRequests(d) ==
    TopRequests(d)
    \cup { Call("scalar_filter_object_type_fields",
                Args("", FALSE, FALSE, FALSE, FALSE, NoField, m)) : m \in SeqToSet(Models(d)) }
    \cup { Call("where_unique_object_type_fields",
                Args("", FALSE, FALSE, FALSE, FALSE, NoField, m)) : m \in SeqToSet(Models(d)) }

InitFilters ==
    /\ CellIdle /\ ConcIdle /\ IndexIdle /\ RenderIdle /\ OrderIdle /\ ValidateIdle
    /\ dm \in FilterModels
    /\ capabilities \in CapabilitySets
    /\ preview_features \in FeatureSets
    /\ enable_raw_queries = FALSE
    /\ BuildStart

NextFilters ==
    \/ \E c \in FilterRequests(dm) : Request(c)
    \/ ReturnCached
    \/ CacheInputType
    \/ ConstructLazy
    \/ CallNested
    \/ SetFieldsDb
    \/ Return

SpecFilters == InitFilters /\ [][NextFilters]_vars

(* the outermost field closure has computed its fields and is about to     *)
(* hand them to the reader                                                  *)
AtReturn == Len(stack) = 1 /\ Cur.op = "return"
ReturnedFields == ResultOf(Top)

(* the filter object whose field closure runs, and whether it has the      *)
(* boolean operators at all                                                 *)
IsFilterObject ==
    \/ Top.fn \in {"where_object_type_fields", "scalar_filter_object_type_fields"}
    \/ Top.fn = "where_unique_object_type_fields" /\ IsExtended

(* the identifier of the objects the operators combine: the filter object  *)
(* itself, and for the unique criterion the where object of the model      *)
CombinedIdent ==
    IF Top.fn = "scalar_filter_object_type_fields"
    THEN scalar_filter_ident(Top.a.model, Top.a.include_aggregates)
    ELSE where_ident(Top.a.model)

TypesOfField(fields, name) ==
    (CHOOSE f \in SeqToSet(fields) : f.name = name).field_types
HasInputField(fields, name) == \E i \in 1..Len(fields) : fields[i].name = name

AcceptsObject(field_types, ident, depth) ==
    \E j \in 1..Len(field_types) :
        /\ field_types[j].k = "Object"
        /\ field_types[j].ident = ident
        /\ field_types[j].depth = depth

TakesOneOrAList(fields, name) ==
    /\ HasInputField(fields, name)
    /\ AcceptsObject(TypesOfField(fields, name), CombinedIdent, 0)
    /\ AcceptsObject(TypesOfField(fields, name), CombinedIdent, 1)

TakesAListOnly(fields, name) ==
    /\ HasInputField(fields, name)
    /\ Len(TypesOfField(fields, name)) = 1
    /\ AcceptsObject(TypesOfField(fields, name), CombinedIdent, 1)

(* C21 as stated: in every filter object each of AND, OR and NOT accepts   *)
(* both a single filter object and a list of filter objects.               *)
C21_EachOperatorTakesOneOrAList ==
    (AtReturn /\ IsFilterObject) =>
        /\ TakesOneOrAList(ReturnedFields, "AND")
        /\ TakesOneOrAList(ReturnedFields, "OR")
        /\ TakesOneOrAList(ReturnedFields, "NOT")

(* C21: in every filter object (the where object, the scalar filter object *)
(* and the extended unique criterion) AND and NOT accept both a single     *)
(* filter object and a list of filter objects, OR accepts a list of filter *)
(* objects and nothing else; the objects combined are the filter object    *)
(* itself, and the where object of the model for the unique criterion.     *)
C21_AndNotTakeOneOrAListOrTakesAList ==
    (AtReturn /\ IsFilterObject) =>
        /\ TakesOneOrAList(ReturnedFields, "AND")
        /\ TakesAListOnly(ReturnedFields, "OR")
        /\ TakesOneOrAList(ReturnedFields, "NOT")

C21_Witness ==
    /\ AtReturn /\ IsFilterObject
    /\ dm = "self" /\ Top.fn = "where_object_type_fields"
    /\ Len(TypesOfField(ReturnedFields, "AND")) = 2
    /\ Len(TypesOfField(ReturnedFields, "OR")) = 1
    /\ TypesOfField(ReturnedFields, "OR")[1].depth = 1
    /\ TypesOfField(ReturnedFields, "OR")[1].ident = where_ident("A")

(* the scalar filter types of the registry whose fields are set: the type  *)
(* name, list, nullable, nested and aggregate flags are the components of  *)
(* the identifier                                                          *)
IsScalarFilter(i) ==
    /\ db[i].fields # <<>>
    /\ db[i].identifier.name[1] = "ScalarFilter"
ScalarFilters == {i \in 1..Len(db) : IsScalarFilter(i)}
KindOf(i) == db[i].identifier.name[2]
HasAll(i, names) == \A n \in names : HasInputField(db[i].fields, n)
HasNone(i, names) == \A n \in names : ~HasInputField(db[i].fields, n)

OrderingNames == {"lt", "lte", "gt", "gte"}
InclusionNames == {"in", "notIn"}
NumericKinds == {"Int", "BigInt", "Float", "Decimal"}
DateKinds == {"DateTime"}
StringKinds == {"String", "UUID"}
OrderedKinds == NumericKinds \cup DateKinds \cup StringKinds

IsListFilter(i) == db[i].identifier.name[3] = "true"
IsAggregated(i) == db[i].identifier.name[6] = "true"
AggregateNames == {"_count", "_avg", "_sum", "_min", "_max"}

(* the request the registry is serving reads the fields of a where object  *)
(* or of a unique criterion; FilterTypeBuiltAt(k): the k-th call of the    *)
(* chain is a scalar filter constructor that has set its fields            *)
UnderPlainWhere ==
    /\ stack # <<>>
    /\ stack[1].fn \in {"where_object_type_fields", "where_unique_object_type_fields"}
FilterTypeBuiltAt(k) ==
    /\ stack[k].fn = "full_scalar_filter_type"
    /\ stack[k].id > 0
    /\ IsScalarFilter(stack[k].id)

(* C24: a scalar filter type has the aggregate filters (_count, _avg,      *)
(* _sum, _min, _max) only when it is built with include_aggregates: a type *)
(* built without it has none of them, and every filter type built for the  *)
(* fields of a plain where object or of a unique criterion is built        *)
(* without it.  A type built with it has _count, has _avg and _sum exactly *)
(* for the numeric kinds and _min and _max exactly when it is not a list.  *)
C24_AggregateFiltersOnlyOnRequest ==
    /\ \A i \in ScalarFilters :
          IF IsAggregated(i)
          THEN /\ HasInputField(db[i].fields, "_count")
               /\ IF KindOf(i) \in NumericKinds
                  THEN HasAll(i, {"_avg", "_sum"}) ELSE HasNone(i, {"_avg", "_sum"})
               /\ IF IsListFilter(i)
                  THEN HasNone(i, {"_min", "_max"}) ELSE HasAll(i, {"_min", "_max"})
          ELSE HasNone(i, AggregateNames)
    /\ UnderPlainWhere =>
          \A k \in 1..Len(stack) :
              /\ ~stack[k].a.include_aggregates
              /\ FilterTypeBuiltAt(k) =>
                    ~IsAggregated(stack[k].id) /\ HasNone(stack[k].id, AggregateNames)

C24_Witness ==
    /\ dm = "others"
    /\ \E i, j \in ScalarFilters :
          /\ KindOf(i) = "Bytes" /\ IsAggregated(i)
          /\ HasAll(i, {"_count", "_min", "_max"}) /\ HasNone(i, {"_avg", "_sum"})
          /\ KindOf(j) = "Int" /\ IsAggregated(j) /\ HasAll(j, AggregateNames)
    /\ UnderPlainWhere
    /\ \E k \in 1..Len(stack) :
          FilterTypeBuiltAt(k) /\ KindOf(stack[k].id) = "Bytes" /\ ~IsAggregated(stack[k].id)

(* the fields of the root Mutation type, by the (model, action) they carry *)
HasMutation(fields, model, tag) ==
    \E i \in 1..Len(fields) : fields[i].query_info = QueryInfo(model, tag)
HasMutationNamed(fields, name) == \E i \in 1..Len(fields) : fields[i].name = name

RawFieldsAsConfigured(fields) ==
    /\ HasMutationNamed(fields, "executeRaw")
          <=> (enable_raw_queries /\ has_capability("SqlQueryRaw"))
    /\ HasMutationNamed(fields, "queryRaw")
          <=> (enable_raw_queries /\ has_capability("SqlQueryRaw"))
    /\ HasMutationNamed(fields, "runCommandRaw")
          <=> (enable_raw_queries /\ has_capability("MongoDbQueryRaw"))

(* C23 as stated: for every model the Mutation type has upsert,            *)
(* create-many, delete-one, delete-many, update-one and update-many, and   *)
(* create-one exactly when the model supports creation; the raw fields     *)
(* exactly when raw queries are enabled and the connector has the          *)
(* capability.                                                             *)
C23_SixFieldsForEveryModel ==
    query_schema.built =>
        /\ \A model \in SeqToSet(Models(dm)) :
              /\ \A tag \in {"UpsertOne", "CreateMany", "DeleteOne", "DeleteMany",
                             "UpdateOne", "UpdateMany"} :
                    HasMutation(mutation_type_build(dm), model, tag)
              /\ HasMutation(mutation_type_build(dm), model, "CreateOne")
                    <=> supports_create_operation(dm, model)
        /\ RawFieldsAsConfigured(mutation_type_build(dm))

MutationFieldsOfModel(fields, model) ==
    /\ HasMutation(fields, model, "DeleteMany")
    /\ HasMutation(fields, model, "UpdateMany")
    /\ HasMutation(fields, model, "CreateOne") <=> supports_create_operation(dm, model)
    /\ HasMutation(fields, model, "UpsertOne")
          <=> (supports_create_operation(dm, model) /\ has_unique(dm, model))
    /\ HasMutation(fields, model, "CreateMany")
          <=> (supports_create_operation(dm, model) /\ has_capability("CreateMany"))
    /\ HasMutation(fields, model, "DeleteOne") <=> has_unique(dm, model)
    /\ HasMutation(fields, model, "UpdateOne") <=> has_unique(dm, model)

(* C23: for every model the Mutation type has delete-many and update-many; *)
(* it has create-one exactly when the model supports creation, upsert and  *)
(* create-many only when it does (upsert when the model also has a unique  *)
(* criterion, create-many when the connector can create many), delete-one  *)
(* and update-one exactly when the model has a unique criterion.  The raw  *)
(* fields executeRaw and queryRaw are there exactly when raw queries are   *)
(* enabled and the connector has SqlQueryRaw, runCommandRaw exactly when   *)
(* they are enabled and it has MongoDbQueryRaw.                            *)
C23_MutationFieldsOfEveryModel ==
    query_schema.built =>
        /\ \A model \in SeqToSet(Models(dm)) :
              MutationFieldsOfModel(mutation_type_build(dm), model)
        /\ RawFieldsAsConfigured(mutation_type_build(dm))

C23_Witness ==
    /\ query_schema.built
    /\ dm = "nokey" /\ enable_raw_queries /\ capabilities = {"MongoDbQueryRaw"}
    /\ HasMutation(mutation_type_build(dm), "A", "UpsertOne")
    /\ HasMutation(mutation_type_build(dm), "A", "CreateOne")
    /\ ~HasMutation(mutation_type_build(dm), "A", "CreateMany")
    /\ ~HasMutation(mutation_type_build(dm), "L", "CreateOne")
    /\ ~HasMutation(mutation_type_build(dm), "L", "UpsertOne")
    /\ ~HasMutation(mutation_type_build(dm), "L", "DeleteOne")
    /\ HasMutation(mutation_type_build(dm), "L", "DeleteMany")
    /\ HasMutationNamed(mutation_type_build(dm), "runCommandRaw")
    /\ ~HasMutationNamed(mutation_type_build(dm), "executeRaw")

-----------------------------------------------------------------------------
(* The constructors of ValidationError and the conversion of an error into *)
(* a KnownError, applied to paths and payloads drawn from small sets.       *)

(* ValidationErrorKind: the variants of the enum, in the source's spelling; *)
(* UnkownArgument is the kind of an unknown argument.  Union has no        *)
(* constructor.                                                            *)
ValidationErrorKind ==
    {"EmptySelection", "InvalidArgumentType", "InvalidArgumentValue", "SomeFieldsMissing",
     "TooManyFieldsGiven", "SelectionSetOnScalar", "RequiredArgumentMissing", "Union",
     "UnkownArgument", "UnknownInputField", "UnknownSelectionField", "ValueTooLarge"}

(* ValidationErrorKind::code *)
ValidationErrorKind_code_of_one(kind) == "P2009"
ValidationErrorKind_code(kind) ==
    IF kind = "RequiredArgumentMissing" THEN "P2012" ELSE "P2009"

(* serde_json::to_value(&err): kind and selectionPath (camelCase), the     *)
(* message skipped, the entries of meta flattened into the same object     *)
RecordMerge(a, b) ==
    [x \in DOMAIN a \cup DOMAIN b |-> IF x \in DOMAIN b THEN b[x] ELSE a[x]]
ValidationError_serialize(err) ==
    IF err.meta.some
    THEN RecordMerge([kind |-> err.kind, selectionPath |-> err.selection_path],
                     Unwrapped(err.meta))
    ELSE [kind |-> err.kind, selectionPath |-> err.selection_path]

(* impl From<ValidationError> for KnownError *)
KnownError_from(err) ==
    [message |-> err.message,
     meta |-> ValidationError_serialize(err),
     error_code |-> ValidationErrorKind_code(err.kind)]

ConstructorNames ==
    {"empty_selection", "invalid_argument_type", "invalid_argument_value",
     "some_fields_missing", "too_many_fields_given", "required_argument_missing",
     "unknown_argument", "unknown_input_field", "unkown_selection_field",
     "selection_set_on_scalar", "value_too_large"}
ErrorSelectionPaths == { <<"findManyA">>, <<"findManyA", "b">>, <<"findUniqueA", "b", "as">> }
ErrorArgumentPaths == { <<"where">>, <<"where", "id">> }

SampleOutputType ==
    OutputTypeDescription("A", << OutputTypeDescriptionField("id", "Int", FALSE) >>)
SampleInputType ==
    InputTypeDescription("AWhereInput", << InputTypeDescriptionField("id", <<"Int">>, FALSE) >>)

(* the call of one constructor *)
Constructed(c, selection_path, argument_path) ==
    LET name == argument_path[Len(argument_path)]
    IN CASE c = "empty_selection" -> empty_selection(selection_path, SampleOutputType)
         [] c = "invalid_argument_type" ->
              invalid_argument_type(selection_path, argument_path,
                                    ArgumentDescription(name, <<"Int", "AWhereInput">>))
         [] c = "invalid_argument_value" ->
              invalid_argument_value(selection_path, argument_path, "x", "DateTime", None)
         [] c = "some_fields_missing" ->
              some_fields_missing(selection_path, argument_path, Some(1), None, None, 0)
         [] c = "too_many_fields_given" ->
              too_many_fields_given(selection_path, argument_path, Some(1), Some(1), None, 2)
         [] c = "required_argument_missing" ->
              required_argument_missing(selection_path, argument_path, SampleInputType)
         [] c = "unknown_argument" ->
              unknown_argument(selection_path, argument_path,
                               << ArgumentDescription("where", <<"AWhereInput">>) >>)
         [] c = "unknown_input_field" -> unknown_input_field(selection_path, SampleInputType)
         [] c = "unkown_selection_field" ->
              unkown_selection_field(name, selection_path, SampleOutputType)
         [] c = "selection_set_on_scalar" -> selection_set_on_scalar(name, selection_path)
         [] OTHER -> value_too_large(selection_path, argument_path, "9223372036854775808")

ConstructError ==
    /\ vpc = "idle"
    /\ subject.some
    /\ errors' = << Constructed(Unwrapped(subject).constructor,
                                Unwrapped(subject).selection_path,
                                Unwrapped(subject).argument_path) >>
    /\ vpc' = "constructed"
    /\ UNCHANGED <<document, parsed, subject, known_error, notValidate>>

ConvertError ==
    /\ vpc = "constructed"
    /\ known_error' = Some(KnownError_from(errors[1]))
    /\ vpc' = "converted"
    /\ UNCHANGED <<document, errors, parsed, subject, notValidate>>

InitErrors ==
    /\ CellIdle /\ ConcIdle /\ BuildStart /\ IndexIdle /\ RenderIdle /\ OrderIdle
    /\ dm = "cycle2" /\ PlainConfig
    /\ document = <<>>
    /\ vpc = "idle"
    /\ errors = <<>>
    /\ parsed = None
    /\ known_error = None
    /\ \E c \in ConstructorNames, sp \in ErrorSelectionPaths, ap \in ErrorArgumentPaths :
          subject = Some([constructor |-> c, selection_path |-> sp, argument_path |-> ap])

NextErrors == ConstructError \/ ConvertError

SpecErrors == InitErrors /\ [][NextErrors]_vars

(* the eleven kinds of the taxonomy; the kind of an unknown argument is    *)
(* spelled UnkownArgument by the enum                                      *)
TaxonomyKinds == ValidationErrorKind \ {"Union"}

C27_KnownErrorOfAValidationError ==
    vpc = "converted" =>
        /\ known_error.some
        /\ Unwrapped(known_error).error_code = "P2012"
              <=> errors[1].kind = "RequiredArgumentMissing"
        /\ Unwrapped(known_error).error_code \in {"P2012", "P2009"}
        /\ Unwrapped(known_error).message = errors[1].message
        /\ Unwrapped(known_error).meta["kind"] = errors[1].kind
        /\ Unwrapped(known_error).meta["selectionPath"] = errors[1].selection_path
        /\ "message" \notin DOMAIN Unwrapped(known_error).meta
        /\ errors[1].meta.some =>
              \A x \in DOMAIN Unwrapped(errors[1].meta) :
                  Unwrapped(known_error).meta[x] = Unwrapped(errors[1].meta)[x]

C27_Witness ==
    /\ vpc = "converted"
    /\ errors[1].kind = "RequiredArgumentMissing"
    /\ Unwrapped(known_error).error_code = "P2012"
    /\ Unwrapped(known_error).message = "'where.id': A value is required but not set"
    /\ Unwrapped(known_error).meta["selectionPath"] = <<"findManyA">>
    /\ Unwrapped(known_error).meta["argumentPath"] = <<"where", "id">>

-----------------------------------------------------------------------------
(* The cardinality requirements of an input object: the three calls that   *)
(* require exactly one, at least one and at most one field, applied in any *)
(* order to an object as its constructor leaves it (a tag, a subset of     *)
(* constrained fields and a field list, or none of them).                   *)
MaxCalls == 3

ConstrainedObjects ==
    { [init_input_object_type(new_prisma(<<"WhereUniqueInput", "A">>)) EXCEPT
          !.tag = tag, !.constraints.fields = subset, !.fields = fields] :
        tag \in {"", "WhereInputType"},
        subset \in {None, Some(<<"id">>)},
        fields \in { <<>>, << optional(input_field("id", <<TScalar("Int")>>)) >> } }

CardinalityCalls ==
    {"require_exactly_one_field", "require_at_least_one_field", "require_at_most_one_field"}

Required(call, o) ==
    CASE call = "require_exactly_one_field" -> require_exactly_one_field(o)
      [] call = "require_at_least_one_field" -> require_at_least_one_field(o)
      [] OTHER -> require_at_most_one_field(o)

(* one of the three calls on the object; the object before the call and    *)
(* the object as constructed are kept beside it                            *)
Require(call) ==
    /\ subject.some
    /\ Unwrapped(subject).calls < MaxCalls
    /\ subject' = Some([schema_object |-> Required(call, Unwrapped(subject).schema_object),
                        before |-> Unwrapped(subject).schema_object,
                        constructed |-> Unwrapped(subject).constructed,
                        last |-> call,
                        calls |-> Unwrapped(subject).calls + 1])
    /\ UNCHANGED <<document, vpc, errors, parsed, known_error, notValidate>>

InitConstraints ==
    /\ CellIdle /\ ConcIdle /\ BuildStart /\ IndexIdle /\ RenderIdle /\ OrderIdle
    /\ dm = "cycle2" /\ PlainConfig
    /\ document = <<>>
    /\ vpc = "idle"
    /\ errors = <<>>
    /\ parsed = None
    /\ known_error = None
    /\ \E o \in ConstrainedObjects :
          subject = Some([schema_object |-> o, before |-> o, constructed |-> o,
                          last |-> "", calls |-> 0])

NextConstraints == \E call \in CardinalityCalls : Require(call)

SpecConstraints == InitConstraints /\ [][NextConstraints]_vars

MinOf(o) == o.constraints.min_num_fields
MaxOf(o) == o.constraints.max_num_fields

(* C28: after any sequence of require_exactly_one_field,                   *)
(* require_at_least_one_field and require_at_most_one_field the minimum is *)
(* not above the maximum when both are set; require_at_least_one_field     *)
(* leaves the maximum as it was; and no call changes the subset of         *)
(* constrained fields, the tag, the identifier or the field list.          *)
C28_CardinalityCallsKeepMinBelowMax ==
    subject.some =>
        /\ (MinOf(Unwrapped(subject).schema_object).some
              /\ MaxOf(Unwrapped(subject).schema_object).some) =>
              Unwrapped(MinOf(Unwrapped(subject).schema_object))
                 <= Unwrapped(MaxOf(Unwrapped(subject).schema_object))
        /\ Unwrapped(subject).last = "require_at_least_one_field" =>
              /\ MaxOf(Unwrapped(subject).schema_object) = MaxOf(Unwrapped(subject).before)
              /\ MinOf(Unwrapped(subject).schema_object) = Some(1)
        /\ Unwrapped(subject).schema_object.constraints.fields
              = Unwrapped(subject).constructed.constraints.fields
        /\ Unwrapped(subject).schema_object.tag = Unwrapped(subject).constructed.tag
        /\ Unwrapped(subject).schema_object.fields = Unwrapped(subject).constructed.fields
        /\ Unwrapped(subject).schema_object.identifier
              = Unwrapped(subject).constructed.identifier

C28_Witness ==
    /\ subject.some
    /\ Unwrapped(subject).calls = 2
    /\ Unwrapped(subject).last = "require_at_least_one_field"
    /\ MinOf(Unwrapped(subject).before) = Some(0)
    /\ MaxOf(Unwrapped(subject).before) = Some(1)
    /\ MinOf(Unwrapped(subject).schema_object) = Some(1)
    /\ MaxOf(Unwrapped(subject).schema_object) = Some(1)
    /\ Unwrapped(subject).schema_object.constraints.fields = Some(<<"id">>)
    /\ Unwrapped(subject).schema_object.tag = "WhereInputType"
-----------------------------------------------------------------------------
(* The fields a cardinality constraint is applied on, in the lookups by a  *)
(* unique criterion.                                                       *)
IsUniqueLookup ==
    /\ vpc = "validated"
    /\ RootSelection.name = "findUnique" \o Models(dm)[1]
    /\ WhereValue.k = "Object"
WherePairs == WhereValue.v
GivenNames == [i \in 1..Len(WherePairs) |-> WherePairs[i].name]
GivenUnique ==
    Len(SelectSeq(WherePairs,
                  LAMBDA p : \E i \in 1..Len(UniqueNames) : UniqueNames[i] = p.name))
CardinalityErrors ==
    SelectSeq(errors, LAMBDA e : e.kind \in {"SomeFieldsMissing", "TooManyFieldsGiven"})
OnlyError(kind, text) ==
    /\ parsed = None
    /\ Len(errors) = 1
    /\ errors[1].kind = kind
    /\ Unwrapped(errors[1].meta).argumentPath = <<"where">>
    /\ errors[1].message = text

-----------------------------------------------------------------------------
(* The order-by input types (order_by_objects.rs).  A container is a model *)
(* of the data model; the data models have no composite field.  A type is  *)
(* referred to by value, as an object that carries its identifier and the  *)
(* closure of its fields.                                                  *)

(* OrderByOptions { include_relations, include_scalar_aggregations,        *)
(* include_full_text_search }                                              *)
OrderByOptions(relations, scalar_aggregations, full_text_search) ==
    [include_relations |-> relations,
     include_scalar_aggregations |-> scalar_aggregations,
     include_full_text_search |-> full_text_search]
OrderByOptions_new == OrderByOptions(FALSE, FALSE, FALSE)
with_aggregates(self) == [self EXCEPT !.include_scalar_aggregations = TRUE]

type_suffix(self) ==
    CASE self.include_relations /\ ~self.include_scalar_aggregations
             /\ ~self.include_full_text_search -> "WithRelation"
      [] ~self.include_relations /\ self.include_scalar_aggregations
             /\ ~self.include_full_text_search -> "WithAggregation"
      [] self.include_relations /\ ~self.include_scalar_aggregations
             /\ self.include_full_text_search -> "WithRelationAndSearchRelevance"
      [] OTHER -> ""

sort_order_enum == TEnum(new_prisma(<<"SortOrder">>))
sort_nulls_object_type ==
    with_closure(init_input_object_type(new_prisma(<<"SortOrderInput">>)),
                 "sort_nulls_object_type", "", "")

order_by_to_many_aggregate_object_type(container) ==
    with_closure(require_exactly_one_field(init_input_object_type(
                     new_prisma(<<"OrderByToManyAggregateInput", container>>))),
                 "order_by_to_many_aggregate_object_type", container, "")

order_by_object_type_aggregate(suffix, container, scalar_fields) ==
    with_closure(require_exactly_one_field(init_input_object_type(
                     new_prisma(<<"OrderByAggregateInput", container, suffix>>))),
                 "order_by_object_type_aggregate", container, suffix)

(* Option<InputField>: a list of no field or one *)
order_by_field_aggregate(name, suffix, container, scalar_fields) ==
    IF scalar_fields = <<>> THEN <<>>
    ELSE << optional(input_field(name,
               <<InputType_object(order_by_object_type_aggregate(suffix, container,
                                                                  scalar_fields))>>)) >>

compute_scalar_aggregation_fields(container) ==
    order_by_field_aggregate("_count", "Count", container, AggregatedFields(dm, container, "_count"))
    \o order_by_field_aggregate("_avg", "Avg", container, AggregatedFields(dm, container, "_avg"))
    \o order_by_field_aggregate("_max", "Max", container, AggregatedFields(dm, container, "_max"))
    \o order_by_field_aggregate("_min", "Min", container, AggregatedFields(dm, container, "_min"))
    \o order_by_field_aggregate("_sum", "Sum", container, AggregatedFields(dm, container, "_sum"))

order_by_object_type_text_search(container, scalar_fields) ==
    with_closure(init_input_object_type(new_prisma(<<"OrderByRelevanceInput", container>>)),
                 "order_by_object_type_text_search", container, "")

IsStringScalar(f) == f.kind = "Scalar" /\ f.typ = "String"
order_by_field_text_search(container, scalar_fields) ==
    IF scalar_fields = <<>> THEN <<>>
    ELSE << optional(input_field("_relevance",
               <<InputType_object(order_by_object_type_text_search(container,
                                                                    scalar_fields))>>)) >>

(* the name of an option set, for the closure of the fields *)
OptionsName(options) ==
    B(options.include_relations) \o "," \o B(options.include_scalar_aggregations)
        \o "," \o B(options.include_full_text_search)

order_by_object_type(container, options) ==
    with_closure(require_at_most_one_field(init_input_object_type(
                     new_prisma(<<"OrderByInput", container, type_suffix(options)>>))),
                 "order_by_object_type", container, OptionsName(options))

(* Option<InputField> of a field of the container *)
orderby_field_mapper(f, options) ==
    IF f.kind = "Relation" /\ f.is_list /\ options.include_relations
    THEN << optional(input_field(f.name,
               <<InputType_object(order_by_to_many_aggregate_object_type(f.related))>>)) >>
    ELSE IF f.kind = "Relation" /\ options.include_relations
    THEN << optional(input_field(f.name,
               <<InputType_object(order_by_object_type(f.related, options))>>)) >>
    ELSE IF f.kind = "Scalar"
    THEN << optional(input_field(f.name,
               <<sort_order_enum>>
               \o (IF has_feature("OrderByNulls") /\ has_capability("OrderByNullsFirstLast")
                      /\ ~f.is_required /\ ~f.is_list
                   THEN <<InputType_object(sort_nulls_object_type)>> ELSE <<>>))) >>
    ELSE <<>>

(* the closure of the fields of order_by_object_type *)
order_by_object_fields(fields, container, options) ==
    ConcatAll([i \in 1..Len(fields) |-> orderby_field_mapper(fields[i], options)])
    \o (IF options.include_scalar_aggregations
        THEN compute_scalar_aggregation_fields(container) ELSE <<>>)
    \o (IF options.include_full_text_search
        THEN order_by_field_text_search(container, SelectSeq(fields, IsStringScalar))
        ELSE <<>>)

(* the order-by types built are kept, at most MaxOrderBy of them *)
MaxOrderBy == 2
OptionSets ==
    { OrderByOptions(r, a, s) : r \in BOOLEAN, a \in BOOLEAN, s \in BOOLEAN }
OrderByModels == {"cycle2", "self", "user"}
OrderByCapabilities == { {}, {"OrderByNullsFirstLast"} }
OrderByFeatures == { {}, {"OrderByNulls"} }

(* order_by_object_type(ctx, container, options), and its fields read *)
OrderByObjectType(container, options) ==
    /\ Len(order_by) < MaxOrderBy
    /\ order_by' = Append(order_by,
           [container |-> container,
            options |-> options,
            typ |-> InputObjectType_set_fields(
                        order_by_object_type(container, options),
                        order_by_object_fields(ModelFields(dm, container), container,
                                               options))])
    /\ UNCHANGED notOrder

InitOrderBy ==
    /\ CellIdle /\ ConcIdle /\ BuildStart /\ IndexIdle /\ RenderIdle /\ OrderIdle /\ ValidateIdle
    /\ dm \in OrderByModels
    /\ capabilities \in OrderByCapabilities
    /\ preview_features \in OrderByFeatures
    /\ enable_raw_queries = FALSE
NextOrderBy ==
    \E container \in SeqToSet(Models(dm)), options \in OptionSets :
        OrderByObjectType(container, options)
SpecOrderBy == InitOrderBy /\ [][NextOrderBy]_vars

SameContainer(x, y) == x.container = y.container
FieldListsDiffer(x, y) == x.typ.fields # y.typ.fields

ToldApart ==
    { OrderByOptions(TRUE, FALSE, FALSE), OrderByOptions(FALSE, TRUE, FALSE),
      OrderByOptions(TRUE, FALSE, TRUE), OrderByOptions_new }
ToldApartOptionsDifferentIdentifiers ==
    \A i, j \in 1..Len(order_by) :
        (SameContainer(order_by[i], order_by[j])
            /\ order_by[i].options \in ToldApart /\ order_by[j].options \in ToldApart
            /\ order_by[i].options # order_by[j].options)
            => order_by[i].typ.identifier # order_by[j].typ.identifier

(* the plain type of User and the one with the text search: one more      *)
(* field, the same identifier                                              *)
SameIdentifierForTwoFieldLists ==
    /\ dm = "user" /\ Len(order_by) = 2
    /\ order_by[1].container = "User" /\ order_by[2].container = "User"
    /\ order_by[1].options = OrderByOptions_new
    /\ order_by[2].options = OrderByOptions(FALSE, FALSE, TRUE)
    /\ Len(order_by[2].typ.fields) = Len(order_by[1].typ.fields) + 1
    /\ order_by[1].typ.identifier = order_by[2].typ.identifier
-----------------------------------------------------------------------------
(* Lookups by a name that is not a model of the data model.                *)
RootFieldsOf(root) ==
    IF root = "query" THEN query_type_build(dm) ELSE mutation_type_build(dm)
LookupIn(root, model_name, tag) ==
    IF root = "query"
    THEN find_query_field_by_model_and_action(query_schema, model_name, tag)
    ELSE find_mutation_field_by_model_and_action(query_schema, model_name, tag)
(* the root fields that carry the tag and no model *)
ModelLessFields(root, tag) ==
    SelectSeq(RootFieldsOf(root), LAMBDA f : f.query_info = QueryInfo("", tag))
IsUnknownModel(model_name) ==
    model_name.some /\ Unwrapped(model_name) \notin SeqToSet(Models(dm))
ModelLessNames == {"executeRaw", "queryRaw", "runCommandRaw"}

====
